---- MODULE Spec2Model ----
(***************************************************************************)
(* GitHub Organization Configurator: the reconciliation run of             *)
(* GitHubConfigurator.apply_config (src/src/configurator.py) over the      *)
(* label, milestone and secret managers (src/src/github/*.py), against a   *)
(* remote store reached through GitHubApiClient (src/src/github/api.py).   *)
(*                                                                         *)
(* Every handler (create_milestone, create_label, create_or_update_secret, *)
(* sync_repository_milestones, sync_repository_labels) is one action.  The *)
(* outcome of each HTTP call is an input of the action: the status the     *)
(* remote store answers with, or an injected failure status.               *)
(***************************************************************************)
EXTENDS Integers, Sequences, FiniteSets, TLC

VARIABLES
    args,              \* the command line of main, as parse_args returns it
    config,            \* the YAML document of the configuration file
    organization,      \* GitHubConfigurator.organization ("" = None)
    dry_run,           \* GitHubConfigurator.dry_run
    sync_labels,       \* GitHubConfigurator.sync_labels   (after "or sync_all")
    sync_milestones,   \* GitHubConfigurator.sync_milestones
    remote,            \* repository -> [labels, milestones, secrets, next_number]
    repositories,      \* the list apply_config iterates over
    pc,                \* [ph, ri, idx]: position inside apply_config
    repo_success,      \* local "success" of apply_config_to_repository
    success,           \* local "success" of apply_config
    label_manager,     \* [stats, success_count, error_count]
    milestone_manager, \* [stats, success_count, error_count]
    success_count,     \* GitHubConfigurator.success_count
    error_count,       \* GitHubConfigurator.error_count
    processed_repos,   \* GitHubConfigurator.processed_repos
    exit_code,         \* exit status of the process (-1 while running)
    reported,          \* the summary statistics main has logged, if any
    pass,              \* which application of the configuration this is (1, 2)
    log,               \* history: every HTTP request issued in this pass
    results,           \* history: every handler call of this pass and its outcome
    faults,            \* history: number of injected request failures so far
    remote0,           \* history: the remote store when this pass began
    previous           \* history: the log and results of the pass before

vars == <<args, config, organization, dry_run, sync_labels, sync_milestones, remote,
          repositories, pc, repo_success, success, label_manager,
          milestone_manager, success_count, error_count, processed_repos,
          exit_code, reported, pass, log, results, faults, remote0, previous>>

(***************************************************************************)
(* Bounds of the model.                                                    *)
(***************************************************************************)
MaxFaults == 1      \* injected request failures per run
MaxDeclared == 2    \* declared items of one kind in a configuration
MaxRemote == 2      \* items of one kind a repository starts with

(***************************************************************************)
(* Strings.  A label name is its lower-case text and the set of positions  *)
(* written in upper case; a color is its hex digits (with their case) and  *)
(* the number of leading '#'.                                              *)
(***************************************************************************)
Name(text, caps) == [text |-> text, caps |-> caps]

\* str.lower()
Lower(n) == [n EXCEPT !.caps = {}]

Color(hashes, hex) == [hashes |-> hashes, hex |-> hex]

\* str.lstrip("#")
LStripHash(c) == [c EXCEPT !.hashes = 0]

(***************************************************************************)
(* Due dates.  A date string is a sequence of tokens: a run of digits      *)
(* [t |-> "num", w |-> width, v |-> value], a month name                   *)
(* [t |-> "mon", v |-> month, abbr |-> is the 3-letter name, full |-> is   *)
(* the full name] or a separator [t |-> "sep", c |-> text].                *)
(***************************************************************************)
Num(w, v) == [t |-> "num", w |-> w, v |-> v]
Mon(v, abbr, full) == [t |-> "mon", v |-> v, abbr |-> abbr, full |-> full]
Sep(c) == [t |-> "sep", c |-> c]

\* a value of the "due_on" key: absent, None (YAML null), a string, or the
\* datetime.date yaml.safe_load makes of an unquoted YYYY-MM-DD
Absent == [k |-> "absent"]
None == [k |-> "none"]
Str(s) == [k |-> "str", s |-> s]
Date(y, m, d) == [k |-> "date", y |-> y, m |-> m, d |-> d]

\* the eight strptime formats, in the order of the list
date_formats ==
    << <<"Y", "-", "m", "-", "d">>,
       <<"Y", "/", "m", "/", "d">>,
       <<"d", "-", "m", "-", "Y">>,
       <<"d", "/", "m", "/", "Y">>,
       <<"b", " ", "d", ", ", "Y">>,
       <<"B", " ", "d", ", ", "Y">>,
       <<"d", " ", "b", " ", "Y">>,
       <<"d", " ", "B", " ", "Y">> >>

\* one strptime directive (or literal) against one token
MatchTok(d, tok) ==
    CASE d = "Y" -> tok.t = "num" /\ tok.w = 4
      [] d = "m" -> tok.t = "num" /\ tok.w \in {1, 2} /\ tok.v \in 1..12
      [] d = "d" -> tok.t = "num" /\ tok.w \in {1, 2} /\ tok.v \in 1..31
      [] d = "b" -> tok.t = "mon" /\ tok.abbr
      [] d = "B" -> tok.t = "mon" /\ tok.full
      [] OTHER -> tok.t = "sep" /\ tok.c = d

IsLeap(y) == (y % 4 = 0 /\ y % 100 # 0) \/ y % 400 = 0

DaysIn(y, m) ==
    IF m = 2 THEN (IF IsLeap(y) THEN 29 ELSE 28)
    ELSE IF m \in {4, 6, 9, 11} THEN 30 ELSE 31

\* the value a directive of the format reads from the string
Field(s, fmt, ds) == LET i == CHOOSE j \in 1..Len(fmt) : fmt[j] \in ds IN s[i].v

\* datetime.strptime(s, fmt): [ok |-> FALSE] is ValueError
strptime(s, fmt) ==
    IF Len(s) # Len(fmt) \/ \E i \in 1..Len(fmt) : ~MatchTok(fmt[i], s[i])
    THEN [ok |-> FALSE]
    ELSE LET y == Field(s, fmt, {"Y"})
             m == Field(s, fmt, {"m", "b", "B"})
             d == Field(s, fmt, {"d"})
         IN IF d <= DaysIn(y, m) THEN [ok |-> TRUE, y |-> y, m |-> m, d |-> d]
            ELSE [ok |-> FALSE]

strftime_midnight(date) ==
    <<Num(4, date.y), Sep("-"), Num(2, date.m), Sep("-"), Num(2, date.d),
      Sep("T00:00:00Z")>>

\* date_obj.strftime("%Y-%m-%dT23:59:59Z")
strftime(date) ==
    <<Num(4, date.y), Sep("-"), Num(2, date.m), Sep("-"), Num(2, date.d),
      Sep("T23:59:59Z")>>

RECURSIVE TryFormats(_, _)
TryFormats(s, i) ==
    IF i > Len(date_formats) THEN [ok |-> FALSE]
    ELSE LET p == strptime(s, date_formats[i])
         IN IF p.ok THEN [ok |-> TRUE, v |-> Str(strftime(p))]
            ELSE TryFormats(s, i + 1)

\* strptime's "argument 1 must be str": a TypeError, which neither
\* _format_due_date nor the "except ValueError" of create_milestone catches
RaisesTypeError(due) == due.k = "date"

\* MilestoneManager._format_due_date on None or a string: [ok |-> FALSE] is
\* the ValueError
_format_due_date(due) ==
    IF due.k # "str" \/ due.s = <<>> THEN [ok |-> TRUE, v |-> None]
    ELSE TryFormats(due.s, 1)

(***************************************************************************)
(* HTTP.  A request is recorded with the status it got; "inj" marks a      *)
(* failure that is an input of the run (server error) rather than the      *)
(* remote store's answer to the request.  Status 200/201/204 is success;   *)
(* any other status makes GitHubApiClient raise requests.RequestException  *)
(* from raise_for_status().                                                *)
(***************************************************************************)
NoBody == [k |-> "nobody"]

\* statuses an injected failure can carry
FaultStatuses == {500}

Req(repo, m, kind, key, body, status) ==
    [repo |-> repo, m |-> m, kind |-> kind, key |-> key, body |-> body,
     status |-> status, inj |-> status \in FaultStatuses]

\* the inputs of one handler call: for each request kind the handler can
\* issue, 200 (answer from the store) or an injected failure status
Faults == [get : {200} \cup FaultStatuses, post : {200} \cup FaultStatuses,
           patch : {200} \cup FaultStatuses, list : {200} \cup FaultStatuses,
           put : {200} \cup FaultStatuses]

NoFaults == [get |-> 200, post |-> 200, patch |-> 200, list |-> 200, put |-> 200]

Ok(status) == status \in {200, 201, 204}

\* truth value of e.response in "e.response and ...": requests.Response.__bool__
\* returns Response.ok, which is False for every status of 400 and above
ResponseTruthy(status) == status < 400

\* hasattr(e, "response") and e.response and e.response.status_code == 422
Is422(status) == ResponseTruthy(status) /\ status = 422

(***************************************************************************)
(* Manager bookkeeping: stats, success_count, error_count.                 *)
(***************************************************************************)
NewManager ==
    [stats |-> [created |-> 0, updated |-> 0, removed |-> 0, failed |-> 0,
                skipped |-> 0],
     success_count |-> 0, error_count |-> 0]

IncStat(mgr, k) == [mgr EXCEPT !.stats[k] = @ + 1]
IncSuccessTwice(mgr) == [mgr EXCEPT !.success_count = @ + 2]

\* "self.success_count += 1"
IncSuccess(mgr) == [mgr EXCEPT !.success_count = @ + 1]
IncError(mgr) == [mgr EXCEPT !.error_count = @ + 1]

\* what a handler call leaves behind: its return value, whether an exception
\* left it, the manager, the repository's collection, the requests it issued,
\* the outcome it logged and the names a dry-run sync logged for removal
Result(ret, mgr, store, reqs, outcome) ==
    [ret |-> ret, raised |-> FALSE, mgr |-> mgr, store |-> store, reqs |-> reqs,
     outcome |-> outcome, would |-> <<>>]

FailedRaises(mgr, store, reqs) ==
    [Result(FALSE, mgr, store, reqs, "failed") EXCEPT !.raised = TRUE]

FailedUncounted(mgr, store, reqs) ==
    Result(FALSE, IncError(mgr), store, reqs, "failed")

\* an "except ...:" block of a manager: the error is logged and counted, the
\* outcome is Failed and the handler returns False
Failed(mgr, store, reqs) ==
    Result(FALSE, IncStat(IncError(mgr), "failed"), store, reqs, "failed")

\* index of the first element of seq that is in hits, 0 if none
First(seq, hits) ==
    IF \E i \in 1..Len(seq) : seq[i] \in hits
    THEN CHOOSE i \in 1..Len(seq) :
             seq[i] \in hits /\ \A j \in 1..(i - 1) : seq[j] \notin hits
    ELSE 0

InSeq(x, seq) == \E i \in 1..Len(seq) : seq[i] = x

(***************************************************************************)
(* Labels.  ls is the repository's label list as the remote store holds    *)
(* it; a label is [name, color, description].  The store answers a GET or  *)
(* PATCH of a name it does not hold with 404 and a POST of a name it holds *)
(* in any letter case with 422; it stores a label as sent.                 *)
(***************************************************************************)
FindLabel(ls, name) ==
    First(ls, {ls[i] : i \in {j \in 1..Len(ls) : ls[j].name = name}})

FindLabelLower(ls, name) ==
    First(ls, {ls[i] : i \in {j \in 1..Len(ls) : Lower(ls[j].name) = Lower(name)}})

GetLabelStatus(ls, name, inj) ==
    IF inj # 200 THEN inj ELSE IF FindLabel(ls, name) # 0 THEN 200 ELSE 404

PatchLabelStatus(ls, name, inj) ==
    IF inj # 200 THEN inj ELSE IF FindLabel(ls, name) # 0 THEN 200 ELSE 404

PostLabelStatus(ls, name, inj) ==
    IF inj # 200 THEN inj ELSE IF FindLabelLower(ls, name) # 0 THEN 422 ELSE 201

needs_update_eq(existing, label_data) ==
    \/ existing.color # LStripHash(label_data.color)
    \/ existing.description = label_data.description

\* needs_update of create_label: the remote color against the declared color
\* without leading '#', and the two descriptions, compared with !=
needs_update(existing, label_data) ==
    \/ existing.color # LStripHash(label_data.color)
    \/ existing.description # label_data.description

\* the label_exists = False part of create_label (from "if self.dry_run:")
create_label_absent(repo, ls, label_data, dry, mgr, f, reqs) ==
    LET name == label_data.name
        pst == PostLabelStatus(ls, name, f.post)
        post == Req(repo, "POST", "label", name, label_data, pst)
        list == Req(repo, "LIST", "label", NoBody, NoBody, f.list)
        j == FindLabelLower(ls, name)
        p2st == IF j = 0 THEN 404 ELSE PatchLabelStatus(ls, ls[j].name, f.patch)
        patch2 == Req(repo, "PATCH", "label", IF j = 0 THEN NoBody ELSE ls[j].name,
                      label_data, p2st)
    IN  IF dry THEN Result(TRUE, mgr, ls, reqs, "would_create")
        ELSE IF Ok(pst)
        THEN Result(TRUE, IncStat(IncSuccess(mgr), "created"),
                    Append(ls, label_data), reqs \o <<post>>, "created")
        ELSE IF ~Is422(pst)
        THEN Failed(mgr, ls, reqs \o <<post>>)
        ELSE IF ~Ok(f.list)
        THEN Failed(mgr, ls, reqs \o <<post, list>>)
        ELSE IF j = 0
        THEN Failed(mgr, ls, reqs \o <<post, list>>)
        ELSE IF Ok(p2st)
        THEN Result(TRUE, IncStat(IncSuccess(mgr), "updated"),
                    [ls EXCEPT ![j] = label_data],
                    reqs \o <<post, list, patch2>>, "updated")
        ELSE Failed(mgr, ls, reqs \o <<post, list, patch2>>)

\* LabelManager.create_label
create_label(repo, ls, label_data, dry, mgr, f) ==
    LET name == label_data.name
        i == FindLabel(ls, name)
        gst == GetLabelStatus(ls, name, f.get)
        get == Req(repo, "GET", "label", name, NoBody, gst)
        pst == PatchLabelStatus(ls, name, f.patch)
        patch == Req(repo, "PATCH", "label", name, label_data, pst)
    IN  IF ~Ok(gst)
        THEN create_label_absent(repo, ls, label_data, dry, mgr, f, <<get>>)
        ELSE IF ~needs_update(ls[i], label_data)
        THEN Result(TRUE, IncStat(mgr, "skipped"), ls, <<get>>, "skipped")
        ELSE IF dry
        THEN Result(TRUE, mgr, ls, <<get>>, "would_update")
        ELSE IF Ok(pst)
        THEN Result(TRUE, IncStat(IncSuccess(mgr), "updated"),
                    [ls EXCEPT ![i] = label_data], <<get, patch>>, "updated")
        ELSE create_label_absent(repo, ls, label_data, dry, mgr, f, <<get, patch>>)

\* the status of a DELETE: 204, or the failure injected for this key
DeleteStatus(key, failing) ==
    IF key \in failing THEN CHOOSE st \in FaultStatuses : TRUE ELSE 204

sync_label_nodry(repo, label_name, configured_labels, dry, failing, acc) ==
    LET Other(l) == l.name # label_name
        st == DeleteStatus(label_name, failing)
        del == Req(repo, "DELETE", "label", label_name, NoBody, st)
    IN  IF InSeq(label_name, configured_labels) THEN acc
        ELSE IF Ok(st)
        THEN [acc EXCEPT !.reqs = Append(@, del),
                         !.mgr = IncStat(@, "removed"),
                         !.store = SelectSeq(@, Other)]
        ELSE [acc EXCEPT !.reqs = Append(@, del), !.mgr = IncError(@),
                         !.ret = FALSE]

\* the body of the "for label in all_labels" loop of sync_repository_labels;
\* failing is the set of names whose DELETE is made to fail
sync_label(repo, label_name, configured_labels, dry, failing, acc) ==
    LET Other(l) == l.name # label_name
        st == DeleteStatus(label_name, failing)
        del == Req(repo, "DELETE", "label", label_name, NoBody, st)
    IN  IF InSeq(label_name, configured_labels) THEN acc
        ELSE IF dry THEN [acc EXCEPT !.would = Append(@, label_name)]
        ELSE IF Ok(st)
        THEN [acc EXCEPT !.reqs = Append(@, del),
                         !.mgr = IncStat(@, "removed"),
                         !.store = SelectSeq(@, Other)]
        ELSE [acc EXCEPT !.reqs = Append(@, del), !.mgr = IncError(@),
                         !.ret = FALSE]

RECURSIVE sync_labels_loop(_, _, _, _, _, _, _)
sync_labels_loop(repo, all_labels, i, configured_labels, dry, failing, acc) ==
    IF i > Len(all_labels) THEN acc
    ELSE sync_labels_loop(repo, all_labels, i + 1, configured_labels, dry,
                          failing,
                          sync_label(repo, all_labels[i].name,
                                     configured_labels, dry, failing, acc))

sync_repository_labels_guarded(repo, ls, configured_labels, dry, mgr, f, failing) ==
    LET list == Req(repo, "LIST", "label", NoBody, NoBody, f.list)
    IN  IF configured_labels = <<>>
        THEN Result(TRUE, mgr, ls, <<>>, "sync")
        ELSE IF ~Ok(f.list)
        THEN Result(FALSE, IncError(mgr), ls, <<list>>, "sync")
        ELSE sync_labels_loop(repo, ls, 1, configured_labels, dry, failing,
                              Result(TRUE, mgr, ls, <<list>>, "sync"))

\* LabelManager.sync_repository_labels
sync_repository_labels(repo, ls, configured_labels, dry, mgr, f, failing) ==
    LET list == Req(repo, "LIST", "label", NoBody, NoBody, f.list)
    IN  IF ~Ok(f.list)
        THEN Result(FALSE, IncError(mgr), ls, <<list>>, "sync")
        ELSE sync_labels_loop(repo, ls, 1, configured_labels, dry, failing,
                              Result(TRUE, mgr, ls, <<list>>, "sync"))

(***************************************************************************)
(* Milestones.  store is [milestones, next_number]: the repository's       *)
(* milestone list, each [number, title, description, due_on], and the      *)
(* number the store gives the next one.  The store answers a POST of a     *)
(* title it holds with 422; a PATCH replaces the fields the body carries.  *)
(***************************************************************************)
\* "for existing in existing_milestones: if existing["title"] ==
\* milestone_title": the first milestone of the list with exactly that title
FindTitle(ms, title) ==
    First(ms, {ms[i] : i \in {j \in 1..Len(ms) : ms[j].title = title}})

PostMilestoneStatus(ms, title, inj) ==
    IF inj # 200 THEN inj ELSE IF FindTitle(ms, title) # 0 THEN 422 ELSE 201

\* the milestone the store holds after a POST of body
Posted(store, body) ==
    [milestones |->
         Append(store.milestones,
                [number |-> store.next_number, title |-> body.title,
                 description |-> body.description,
                 due_on |-> IF body.due_on = Absent THEN None ELSE body.due_on]),
     next_number |-> store.next_number + 1]

\* the store after a PATCH of milestone i with body
Patched(store, i, body) ==
    [store EXCEPT !.milestones[i] =
        [number |-> @.number, title |-> body.title,
         description |-> body.description,
         due_on |-> IF body.due_on = Absent THEN @.due_on ELSE body.due_on]]

\* lines 91-106 of create_milestone: the copy of milestone_data with "due_on"
\* converted; on ValueError only warnings are logged
milestone_data_copy(milestone_data) ==
    IF milestone_data.due_on.k = "str" /\ milestone_data.due_on.s # <<>>
    THEN LET r == _format_due_date(milestone_data.due_on)
         IN IF r.ok THEN [milestone_data EXCEPT !.due_on = r.v]
            ELSE milestone_data
    ELSE milestone_data

\* "due_on" in milestone_data_copy and milestone_data_copy["due_on"] is None
DueIsNone(copy) == copy.due_on = None

\* MilestoneManager.create_milestone
create_milestone(repo, store, milestone_data, dry, mgr, f) ==
    LET title == milestone_data.title
        copy == milestone_data_copy(milestone_data)
        ms == store.milestones
        list == Req(repo, "LIST", "milestone", NoBody, NoBody, f.list)
        i == IF Ok(f.list) THEN FindTitle(ms, title) ELSE 0
        body == IF DueIsNone(copy) THEN [copy EXCEPT !.due_on = Absent] ELSE copy
        patch == Req(repo, "PATCH", "milestone",
                     IF i = 0 THEN NoBody ELSE [number |-> ms[i].number],
                     body, f.patch)
        pst == PostMilestoneStatus(ms, title, f.post)
        post == Req(repo, "POST", "milestone", title, copy, pst)
    IN  IF RaisesTypeError(milestone_data.due_on)
        THEN Failed(mgr, store, <<>>)
        ELSE IF i # 0
        THEN IF dry THEN Result(TRUE, mgr, store, <<list>>, "would_update")
             ELSE IF Ok(f.patch)
             THEN Result(TRUE, IncStat(IncSuccess(mgr), "updated"),
                         Patched(store, i, body), <<list, patch>>, "updated")
             ELSE Failed(mgr, store, <<list, patch>>)
        ELSE IF dry THEN Result(TRUE, mgr, store, <<list>>, "would_create")
        ELSE IF DueIsNone(copy)
        THEN Result(FALSE, IncStat(mgr, "skipped"), store, <<list>>, "skipped")
        ELSE IF Ok(pst)
        THEN Result(TRUE, IncStat(IncSuccess(mgr), "created"),
                    Posted(store, copy), <<list, post>>, "created")
        ELSE IF Is422(pst)
        THEN Result(TRUE, IncStat(mgr, "skipped"), store, <<list, post>>,
                    "skipped")
        ELSE Failed(mgr, store, <<list, post>>)

sync_milestone_inverted(repo, milestone, configured_milestones, dry, failing, acc) ==
    LET milestone_title == milestone.title
        milestone_number == milestone.number
        Other(m) == m.number # milestone_number
        st == DeleteStatus(milestone_number, failing)
        del == Req(repo, "DELETE", "milestone", [number |-> milestone_number],
                   NoBody, st)
    IN  IF ~InSeq(milestone_title, configured_milestones) THEN acc
        ELSE IF dry THEN [acc EXCEPT !.would = Append(@, milestone_title)]
        ELSE IF Ok(st)
        THEN [acc EXCEPT !.reqs = Append(@, del),
                         !.mgr = IncStat(@, "removed"),
                         !.store.milestones = SelectSeq(@, Other)]
        ELSE [acc EXCEPT !.reqs = Append(@, del), !.mgr = IncError(@),
                         !.ret = FALSE]

sync_milestone_nodry(repo, milestone, configured_milestones, dry, failing, acc) ==
    LET milestone_title == milestone.title
        milestone_number == milestone.number
        Other(m) == m.number # milestone_number
        st == DeleteStatus(milestone_number, failing)
        del == Req(repo, "DELETE", "milestone", [number |-> milestone_number],
                   NoBody, st)
    IN  IF InSeq(milestone_title, configured_milestones) THEN acc
        ELSE IF Ok(st)
        THEN [acc EXCEPT !.reqs = Append(@, del),
                         !.mgr = IncStat(@, "removed"),
                         !.store.milestones = SelectSeq(@, Other)]
        ELSE [acc EXCEPT !.reqs = Append(@, del), !.mgr = IncError(@),
                         !.ret = FALSE]

\* the body of the "for milestone in all_milestones" loop of
\* sync_repository_milestones; failing is the set of numbers whose DELETE is
\* made to fail
sync_milestone(repo, milestone, configured_milestones, dry, failing, acc) ==
    LET milestone_title == milestone.title
        milestone_number == milestone.number
        Other(m) == m.number # milestone_number
        st == DeleteStatus(milestone_number, failing)
        del == Req(repo, "DELETE", "milestone", [number |-> milestone_number],
                   NoBody, st)
    IN  IF InSeq(milestone_title, configured_milestones) THEN acc
        ELSE IF dry THEN [acc EXCEPT !.would = Append(@, milestone_title)]
        ELSE IF Ok(st)
        THEN [acc EXCEPT !.reqs = Append(@, del),
                         !.mgr = IncStat(@, "removed"),
                         !.store.milestones = SelectSeq(@, Other)]
        ELSE [acc EXCEPT !.reqs = Append(@, del), !.mgr = IncError(@),
                         !.ret = FALSE]

RECURSIVE sync_milestones_loop(_, _, _, _, _, _, _)
sync_milestones_loop(repo, all_milestones, i, configured_milestones, dry, failing, acc) ==
    IF i > Len(all_milestones) THEN acc
    ELSE sync_milestones_loop(repo, all_milestones, i + 1,
                              configured_milestones, dry, failing,
                              sync_milestone(repo, all_milestones[i],
                                             configured_milestones, dry,
                                             failing, acc))

\* MilestoneManager.sync_repository_milestones
sync_repository_milestones(repo, store, configured_milestones, dry, mgr, f, failing) ==
    LET list == Req(repo, "LIST", "milestone", NoBody, NoBody, f.list)
    IN  IF ~Ok(f.list)
        THEN Result(FALSE, IncError(mgr), store, <<list>>, "sync")
        ELSE sync_milestones_loop(repo, store.milestones, 1,
                                  configured_milestones, dry, failing,
                                  Result(TRUE, mgr, store, <<list>>, "sync"))

(***************************************************************************)
(* Secrets.  A declared secret is [name, value], each Absent or a string;  *)
(* the store keeps, per name, the sealed value last PUT.                   *)
(***************************************************************************)
\* SealedBox(public_key).encrypt(value), base64: opaque
seal(public_key, value) == [key |-> public_key, sealed |-> value]

create_or_update_secret_keyonly(repo, secrets, secret, f) ==
    LET get == Req(repo, "GET", "public-key", NoBody, NoBody, f.get)
    IN  IF secret.name = Absent \/ secret.value = Absent
        THEN Result(FALSE, NewManager, secrets, <<>>, "failed")
        ELSE IF ~Ok(f.get)
        THEN Result(FALSE, NewManager, secrets, <<get>>, "failed")
        ELSE Result(TRUE, NewManager, secrets, <<get>>, "configured")

\* SecretManager.create_or_update_secret (it has no dry_run and no counters)
create_or_update_secret(repo, secrets, secret, f) ==
    LET get == Req(repo, "GET", "public-key", NoBody, NoBody, f.get)
        payload == seal("key", secret.value)
        put == Req(repo, "PUT", "secret", secret.name, payload, f.put)
        Other(s) == s.name # secret.name
    IN  IF secret.name = Absent \/ secret.value = Absent
        THEN Result(FALSE, NewManager, secrets, <<>>, "failed")
        ELSE IF ~Ok(f.get)
        THEN Result(FALSE, NewManager, secrets, <<get>>, "failed")
        ELSE IF ~Ok(f.put)
        THEN Result(FALSE, NewManager, secrets, <<get, put>>, "failed")
        ELSE Result(TRUE, NewManager,
                    Append(SelectSeq(secrets, Other),
                           [name |-> secret.name, value |-> payload]),
                    <<get, put>>, "configured")

(***************************************************************************)
(* The inputs of a run: repositories, declared items, remote items.        *)
(***************************************************************************)
Repo(owner, name) == [owner |-> owner, name |-> name]

\* the repositories the remote holds, in the order it lists them
RemoteRepos == <<Repo("acme", "r1"), Repo("acme", "r2")>>

Label(name, color, description) ==
    [name |-> name, color |-> color, description |-> description]

\* declared labels: "bug" abc, "Bug" #ABC "d", "fix" #abc
DeclaredLabels ==
    << Label(Name("bug", {}), Color(0, Name("abc", {})), ""),
       Label(Name("bug", {1}), Color(1, Name("abc", {1, 2, 3})), "d"),
       Label(Name("fix", {}), Color(1, Name("abc", {})), "") >>

\* labels a repository can start with: "bug" in three variants, "fix", "old"
RemoteLabels ==
    << Label(Name("bug", {}), Color(0, Name("abc", {})), ""),
       Label(Name("bug", {}), Color(0, Name("abc", {1, 2, 3})), ""),
       Label(Name("bug", {}), Color(0, Name("abc", {})), "x"),
       Label(Name("fix", {}), Color(0, Name("abc", {})), ""),
       Label(Name("old", {}), Color(0, Name("def", {})), "") >>

Milestone(title, description, due_on) ==
    [title |-> title, description |-> description, due_on |-> due_on,
     due_date |-> Absent]

\* "2025/05/04"
GoodDate == Str(<<Num(4, 2025), Sep("/"), Num(2, 5), Sep("/"), Num(2, 4)>>)
\* "05/04/25": no format of the list parses it
BadDate == Str(<<Num(2, 5), Sep("/"), Num(2, 4), Sep("/"), Num(2, 25)>>)
\* "2024-12-31T23:59:59Z" as the remote holds it
OldDate ==
    Str(<<Num(4, 2024), Sep("-"), Num(2, 12), Sep("-"), Num(2, 31),
          Sep("T23:59:59Z")>>)

\* 4 May 2025 in the forms of date_formats: "2025-05-04", "2025/05/04",
\* "04-05-2025", "04/05/2025", "May 04, 2025", "04 May 2025", "4 May 2025"
May4 ==
    LET y == Num(4, 2025)
        m == Num(2, 5)
        d == Num(2, 4)
        May == Mon(5, TRUE, TRUE)
    IN { Str(<<y, Sep("-"), m, Sep("-"), d>>),
         GoodDate,
         Str(<<d, Sep("-"), m, Sep("-"), y>>),
         Str(<<d, Sep("/"), m, Sep("/"), y>>),
         Str(<<May, Sep(" "), d, Sep(", "), y>>),
         Str(<<d, Sep(" "), May, Sep(" "), y>>),
         Str(<<Num(1, 4), Sep(" "), May, Sep(" "), y>>) }

\* 31 December 2024 with the month's name: "Dec 31, 2024", "December 31,
\* 2024", "31 Dec 2024", "31 December 2024"
Dec31 ==
    LET y == Num(4, 2024)
        d == Num(2, 31)
        Dec == Mon(12, TRUE, FALSE)
        December == Mon(12, FALSE, TRUE)
    IN { Str(<<Dec, Sep(" "), d, Sep(", "), y>>),
         Str(<<December, Sep(" "), d, Sep(", "), y>>),
         Str(<<d, Sep(" "), Dec, Sep(" "), y>>),
         Str(<<d, Sep(" "), December, Sep(" "), y>>) }

\* milestone v1 with its due date under "due_on" in each of these forms, as
\* an unquoted 2025-05-04, and under the key "due_date"
DatedMilestones ==
    {Milestone(Name("v1", {}), "", due) : due \in May4 \cup Dec31}
        \cup {Milestone(Name("v1", {}), "", Date(2025, 5, 4))}
        \cup {[Milestone(Name("v1", {}), "", Absent) EXCEPT !.due_date = GoodDate]}

\* declared milestones: v1 due 2025/05/04, v2 due 05/04/25, v3 with due_on: null
DeclaredMilestones ==
    << Milestone(Name("v1", {}), "", GoodDate),
       Milestone(Name("v2", {}), "", BadDate),
       Milestone(Name("v3", {}), "", None) >>

RemoteMilestone(number, title, due_on) ==
    [number |-> number, title |-> title, description |-> "", due_on |-> due_on]

\* milestones a repository can start with
RemoteMilestones ==
    << RemoteMilestone(1, Name("v1", {}), None),
       RemoteMilestone(2, Name("v2", {}), OldDate),
       RemoteMilestone(3, Name("old", {}), OldDate) >>

\* milestones "V1" and "v1" a repository can start with
CaseMilestones ==
    << RemoteMilestone(1, Name("v1", {1}), OldDate),
       RemoteMilestone(2, Name("v1", {}), None) >>

\* milestone v1 declared with its due date as a string, as null and as an
\* unquoted 2025-05-04
MatchedMilestones ==
    {Milestone(Name("v1", {}), "", due) : due \in {GoodDate, None, Date(2025, 5, 4)}}

DeclaredSecrets == << [name |-> Str("TOKEN"), value |-> Str("s3cret")] >>

\* the files that exist and hold a YAML document
ConfigFiles == {"config.yml"}

\* the elements of pool at the positions in S, in the order of pool
Pick(pool, S) ==
    LET F[i \in 0..Len(pool)] ==
            IF i = 0 THEN <<>>
            ELSE IF i \in S THEN Append(F[i - 1], pool[i]) ELSE F[i - 1]
    IN F[Len(pool)]

SubSeqs(pool, n) ==
    {Pick(pool, S) : S \in {T \in SUBSET (1..Len(pool)) : Cardinality(T) <= n}}

\* a key of the configuration: absent, or present with a list
NoKey == [has |-> FALSE, items |-> <<>>]
Key(items) == [has |-> TRUE, items |-> items]
Keys(lists) == {NoKey} \cup {Key(l) : l \in lists}

\* the remote enforces names unique up to letter case
UniqueLower(ls) ==
    \A i, j \in 1..Len(ls) : Lower(ls[i].name) = Lower(ls[j].name) => i = j

LabelKeys == Keys(SubSeqs(DeclaredLabels, MaxDeclared))
MilestoneKeys == Keys(SubSeqs(DeclaredMilestones, MaxDeclared))
RemoteLabelLists == {ls \in SubSeqs(RemoteLabels, MaxRemote) : UniqueLower(ls)}
RemoteMilestoneLists == SubSeqs(RemoteMilestones, MaxRemote)

RepoState(ls, ms) ==
    [labels |-> ls, milestones |-> ms, secrets |-> <<>>,
     next_number |-> Len(RemoteMilestones) + 1]

\* what repository acme/r2 starts with
SecondRepo ==
    RepoState(Pick(RemoteLabels, {2, 5}), Pick(RemoteMilestones, {2, 3}))

\* the repositories key and the organization: one unqualified name under
\* --organization acme, or no list (the organization's repositories)
RepositoryChoices ==
    { [repositories |-> Key(<<Repo("", "r1")>>), organization |-> "acme"],
      [repositories |-> NoKey, organization |-> "acme"] }

(***************************************************************************)
(* The run: main -> apply_config -> apply_config_to_repository.            *)
(***************************************************************************)
Position(ph, ri, idx) == [ph |-> ph, ri |-> ri, idx |-> idx]

RECURSIVE NormSecretsFirst(_, _, _, _)
NormSecretsFirst(repos, ph, ri, idx) ==
    IF ri > Len(repos) THEN Position("finish", ri, 1)
    ELSE CASE ph = "milestones" ->
                IF config.milestones.has /\ idx <= Len(config.milestones.items)
                THEN Position(ph, ri, idx)
                ELSE NormSecretsFirst(repos, "secrets", ri, 1)
           [] ph = "secrets" ->
                IF config.secrets.has /\ idx <= Len(config.secrets.items)
                THEN Position(ph, ri, idx)
                ELSE NormSecretsFirst(repos, "labels", ri, 1)
           [] ph = "labels" ->
                IF config.labels.has /\ idx <= Len(config.labels.items)
                THEN Position(ph, ri, idx)
                ELSE NormSecretsFirst(repos, "sync_milestones", ri, 1)
           [] ph = "sync_milestones" ->
                IF sync_milestones /\ config.milestones.has /\ idx = 1
                THEN Position(ph, ri, idx)
                ELSE NormSecretsFirst(repos, "sync_labels", ri, 1)
           [] ph = "sync_labels" ->
                IF sync_labels /\ config.labels.has /\ idx = 1
                THEN Position(ph, ri, idx)
                ELSE NormSecretsFirst(repos, "milestones", ri + 1, 1)

RECURSIVE Norm(_, _, _, _)
\* the position of the next handler call at or after (ph, ri, idx), in the
\* order of apply_config_to_repository: milestones, labels, secrets,
\* milestone sync, label sync, then the next repository
Norm(repos, ph, ri, idx) ==
    IF ri > Len(repos) THEN Position("finish", ri, 1)
    ELSE CASE ph = "milestones" ->
                IF config.milestones.has /\ idx <= Len(config.milestones.items)
                THEN Position(ph, ri, idx) ELSE Norm(repos, "labels", ri, 1)
           [] ph = "labels" ->
                IF config.labels.has /\ idx <= Len(config.labels.items)
                THEN Position(ph, ri, idx) ELSE Norm(repos, "secrets", ri, 1)
           [] ph = "secrets" ->
                IF config.secrets.has /\ idx <= Len(config.secrets.items)
                THEN Position(ph, ri, idx)
                ELSE Norm(repos, "sync_milestones", ri, 1)
           [] ph = "sync_milestones" ->
                IF sync_milestones /\ config.milestones.has /\ idx = 1
                THEN Position(ph, ri, idx)
                ELSE Norm(repos, "sync_labels", ri, 1)
           [] ph = "sync_labels" ->
                IF sync_labels /\ config.labels.has /\ idx = 1
                THEN Position(ph, ri, idx)
                ELSE Norm(repos, "milestones", ri + 1, 1)

configured_repositories_verbatim == config.repositories.items

configured_repositories_unique ==
    LET items == config.repositories.items
        Firsts == {i \in 1..Len(items) : \A j \in 1..(i - 1) : items[j] # items[i]}
        named == Pick(items, Firsts)
    IN [i \in 1..Len(named) |->
           IF named[i].owner = "" /\ organization # ""
           THEN Repo(organization, named[i].name) ELSE named[i]]

\* GitHubConfigurator.get_repositories, the configured list
configured_repositories ==
    IF organization # ""
    THEN [i \in 1..Len(config.repositories.items) |->
             LET repo == config.repositories.items[i]
             IN IF repo.owner = "" THEN Repo(organization, repo.name) ELSE repo]
    ELSE config.repositories.items

listed_repositories_none == <<>>

\* GitHubApiClient.get_repositories: the organization's repositories, or the
\* authenticated user's
listed_repositories ==
    LET Mine(r) == organization = "" \/ r.owner = organization
    IN SelectSeq(RemoteRepos, Mine)

repo == repositories[pc.ri]

Titles(items) == [i \in 1..Len(items) |-> items[i].title]
Names(items) == [i \in 1..Len(items) |-> items[i].name]

Injected(reqs) == Cardinality({i \in 1..Len(reqs) : reqs[i].inj})

\* the inputs of a handler call on repository r: the injected failures, or,
\* for a repository the remote does not hold, 404 on every request
Unreachable == [get |-> 404, post |-> 404, patch |-> 404, list |-> 404, put |-> 404]
Flagged(f) == Cardinality({k \in DOMAIN f : f[k] \in FaultStatuses})
FaultChoices(r) ==
    IF r \in DOMAIN remote
    THEN {f \in Faults : faults + Flagged(f) <= MaxFaults}
    ELSE {Unreachable}

\* the sets of keys whose DELETE can be made to fail
FailingChoices(keys) ==
    {S \in SUBSET keys : faults + Cardinality(S) <= MaxFaults}

EmptyRepo == RepoState(<<>>, <<>>)
StoreOf(r) == IF r \in DOMAIN remote THEN remote[r] ELSE EmptyRepo

\* the remote store with repository r's state replaced
Stored(r, rs) == IF r \in DOMAIN remote THEN [remote EXCEPT ![r] = rs] ELSE remote

SuccessLast(so_far, ret) == ret

SuccessAny(so_far, ret) == so_far \/ ret

\* "if not <handler>(...): success = False"
Success(so_far, ret) == so_far /\ ret

\* the part of apply_config and apply_config_to_repository around one handler
\* call: "if not <handler>: success = False", the move to the next item,
\* kind or repository, and main's "except Exception: return 1"
Return(op, key, res) ==
    LET next == Norm(repositories, pc.ph, pc.ri, pc.idx + 1)
        leaves == next.ri # pc.ri
        ok == Success(repo_success, res.ret)
    IN  /\ faults + Injected(res.reqs) <= MaxFaults
        /\ faults' = faults + Injected(res.reqs)
        /\ log' = log \o res.reqs
        /\ results' = Append(results,
                             [op |-> op, repo |-> repo, key |-> key,
                              idx |-> pc.idx, ret |-> res.ret,
                              outcome |-> res.outcome,
                              would |-> res.would])
        /\ IF res.raised
           THEN /\ pc' = Position("done", pc.ri, 1)
                /\ exit_code' = 1
                /\ UNCHANGED <<repo_success, success, processed_repos>>
           ELSE /\ pc' = next
                /\ repo_success' = IF leaves THEN TRUE ELSE ok
                /\ success' = IF leaves THEN Success(success, ok) ELSE success
                /\ processed_repos' =
                       processed_repos \cup
                       {repositories[k] : k \in
                            {j \in 1..Len(repositories) : j <= next.ri}}
                /\ UNCHANGED exit_code
        /\ UNCHANGED <<args, config, organization, dry_run, sync_labels,
                       sync_milestones, repositories, success_count,
                       error_count, reported, pass, remote0, previous>>

token_given_always(a) == TRUE

\* "if not args.token": neither --token nor GITHUB_TOKEN gave a credential
token_given(a) == a.token # ""

\* validate_config: every milestone has a title, every label a name and a
\* color; FALSE is the ValueError.  Secrets are not looked at.
validate_config(cfg) ==
    /\ cfg.milestones.has =>
           \A i \in 1..Len(cfg.milestones.items) :
               cfg.milestones.items[i].title # Absent
    /\ cfg.labels.has =>
           \A i \in 1..Len(cfg.labels.items) :
               /\ cfg.labels.items[i].name # Absent
               /\ cfg.labels.items[i].color # Absent

\* load_config: [ok |-> FALSE] is sys.exit(1), after open() or validate_config
\* raised; document is what yaml.safe_load reads from a file that exists
load_config(config_file, document) ==
    IF config_file \notin ConfigFiles \/ ~validate_config(document)
    THEN [ok |-> FALSE]
    ELSE [ok |-> TRUE, config |-> document]

sync_enabled_always(toggle, sync_all) == TRUE

\* GitHubConfigurator.__init__: "sync_labels or sync_all", and the same for
\* milestones
sync_enabled(toggle, sync_all) == toggle \/ sync_all

\* main, from parse_args to the construction of GitHubConfigurator: the
\* credential check, load_config and GitHubConfigurator.__init__
Main ==
    /\ pc.ph = "main"
    /\ IF ~token_given(args) \/ ~load_config(args.config, config).ok
       THEN /\ pc' = Position("exited", 1, 1)
            /\ exit_code' = 1
            /\ UNCHANGED <<organization, dry_run, sync_labels, sync_milestones>>
       ELSE /\ pc' = Position("start", 1, 1)
            /\ organization' = args.organization
            /\ dry_run' = args.dry_run
            /\ sync_labels' = sync_enabled(args.sync_labels, args.sync)
            /\ sync_milestones' = sync_enabled(args.sync_milestones, args.sync)
            /\ UNCHANGED exit_code
    /\ UNCHANGED <<args, config, remote, repositories, repo_success, success,
                   label_manager, milestone_manager, success_count, error_count,
                   processed_repos, reported, pass, log, results, faults,
                   remote0, previous>>

\* apply_config, "repositories = self.get_repositories(config)"; a failed
\* listing ends the process with sys.exit(1)
GetRepositories ==
    /\ pc.ph = "start"
    /\ \E st \in {200} \cup FaultStatuses :
        LET listing == ~(config.repositories.has /\ config.repositories.items # <<>>)
            repos == IF listing THEN listed_repositories
                     ELSE configured_repositories
            next == Norm(repos, "milestones", 1, 1)
            injected == IF listing /\ st # 200 THEN 1 ELSE 0
            list == Req(Repo(organization, ""), "LIST", "repos", NoBody,
                        NoBody, st)
        IN  /\ faults + injected <= MaxFaults
            /\ faults' = faults + injected
            /\ log' = IF listing THEN Append(log, list) ELSE log
            /\ IF listing /\ st # 200
               THEN /\ pc' = Position("exited", 1, 1)
                    /\ exit_code' = 1
                    /\ UNCHANGED <<repositories, processed_repos>>
               ELSE /\ pc' = next
                    /\ repositories' = repos
                    /\ processed_repos' =
                           {repos[k] : k \in {j \in 1..Len(repos) : j <= next.ri}}
                    /\ UNCHANGED exit_code
    /\ UNCHANGED <<args, config, organization, dry_run, sync_labels,
                   sync_milestones, remote, repo_success, success,
                   label_manager, milestone_manager, success_count,
                   error_count, reported, pass, results, remote0, previous>>

\* one "self.milestone_manager.create_milestone(repo, milestone)"
CreateMilestone ==
    /\ pc.ph = "milestones"
    /\ \E f \in FaultChoices(repo) :
        LET rs == StoreOf(repo)
            milestone == config.milestones.items[pc.idx]
            res == create_milestone(repo,
                       [milestones |-> rs.milestones,
                        next_number |-> rs.next_number],
                       milestone, dry_run, milestone_manager, f)
        IN  /\ Return("create_milestone", milestone.title, res)
            /\ milestone_manager' = res.mgr
            /\ remote' = Stored(repo,
                   [rs EXCEPT !.milestones = res.store.milestones,
                              !.next_number = res.store.next_number])
    /\ UNCHANGED label_manager

\* one "self.label_manager.create_label(repo, label)"
CreateLabel ==
    /\ pc.ph = "labels"
    /\ \E f \in FaultChoices(repo) :
        LET rs == StoreOf(repo)
            label == config.labels.items[pc.idx]
            res == create_label(repo, rs.labels, label, dry_run, label_manager, f)
        IN  /\ Return("create_label", label.name, res)
            /\ label_manager' = res.mgr
            /\ remote' = Stored(repo, [rs EXCEPT !.labels = res.store])
    /\ UNCHANGED milestone_manager

\* one "self.secret_manager.create_or_update_secret(repo, secret)"
CreateSecret ==
    /\ pc.ph = "secrets"
    /\ \E f \in FaultChoices(repo) :
        LET rs == StoreOf(repo)
            secret == config.secrets.items[pc.idx]
            res == create_or_update_secret(repo, rs.secrets, secret, f)
        IN  /\ Return("create_or_update_secret", secret.name, res)
            /\ remote' = Stored(repo, [rs EXCEPT !.secrets = res.store])
    /\ UNCHANGED <<label_manager, milestone_manager>>

\* "self.milestone_manager.sync_repository_milestones(repo, titles)"
SyncMilestones ==
    /\ pc.ph = "sync_milestones"
    /\ \E f \in FaultChoices(repo) :
       \E failing \in FailingChoices({StoreOf(repo).milestones[i].number :
                                          i \in 1..Len(StoreOf(repo).milestones)}) :
        LET rs == StoreOf(repo)
            res == sync_repository_milestones(repo,
                       [milestones |-> rs.milestones,
                        next_number |-> rs.next_number],
                       Titles(config.milestones.items), dry_run,
                       milestone_manager, f, failing)
        IN  /\ Return("sync_repository_milestones", NoBody, res)
            /\ milestone_manager' = res.mgr
            /\ remote' = Stored(repo,
                   [rs EXCEPT !.milestones = res.store.milestones])
    /\ UNCHANGED label_manager

\* "self.label_manager.sync_repository_labels(repo, names)"
SyncLabels ==
    /\ pc.ph = "sync_labels"
    /\ \E f \in FaultChoices(repo) :
       \E failing \in FailingChoices({StoreOf(repo).labels[i].name :
                                          i \in 1..Len(StoreOf(repo).labels)}) :
        LET rs == StoreOf(repo)
            res == sync_repository_labels(repo, rs.labels,
                       Names(config.labels.items), dry_run, label_manager, f,
                       failing)
        IN  /\ Return("sync_repository_labels", NoBody, res)
            /\ label_manager' = res.mgr
            /\ remote' = Stored(repo, [rs EXCEPT !.labels = res.store])
    /\ UNCHANGED milestone_manager

\* the "SUMMARY STATISTICS" block of main
Summary(successes, errors) ==
    [repositories |-> Cardinality(processed_repos),
     success_count |-> successes, error_count |-> errors,
     milestone_stats |-> milestone_manager.stats,
     label_stats |-> label_manager.stats]

\* the end of apply_config (the totals and the value returned) and the rest
\* of main's try block: the summary if requested, and the exit code
Finish ==
    /\ pc.ph = "finish"
    /\ pc' = Position("done", pc.ri, 1)
    /\ success_count' =
           label_manager.success_count + milestone_manager.success_count
    /\ error_count' = label_manager.error_count + milestone_manager.error_count
    /\ reported' = IF args.summary
                   THEN Append(reported, Summary(success_count', error_count'))
                   ELSE reported
    /\ exit_code' = IF success THEN 0 ELSE 1
    /\ UNCHANGED <<args, config, organization, dry_run, sync_labels,
                   sync_milestones, remote, repositories, repo_success, success,
                   label_manager, milestone_manager, processed_repos, pass, log,
                   results, faults, remote0, previous>>

\* KeyboardInterrupt raised while apply_config runs: no manager catches it
\* ("except Exception", "except requests.RequestException"), so it leaves
\* apply_config and main's "except KeyboardInterrupt" returns 130
Interrupt ==
    /\ pc.ph \in {"start", "milestones", "labels", "secrets", "sync_milestones",
                  "sync_labels", "finish"}
    /\ pc' = Position("interrupted", pc.ri, 1)
    /\ exit_code' = 130
    /\ UNCHANGED <<args, config, organization, dry_run, sync_labels,
                   sync_milestones, remote, repositories, repo_success, success,
                   label_manager, milestone_manager, success_count, error_count,
                   processed_repos, reported, pass, log, results, faults,
                   remote0, previous>>

\* the same command run again: a new process (new managers and counters)
\* against the remote store the first run left
Reapply ==
    /\ pc.ph = "done"
    /\ pass = 1
    /\ pass' = 2
    /\ pc' = Position("main", 1, 1)
    /\ repositories' = <<>>
    /\ repo_success' = TRUE
    /\ success' = TRUE
    /\ label_manager' = NewManager
    /\ milestone_manager' = NewManager
    /\ success_count' = 0
    /\ error_count' = 0
    /\ processed_repos' = {}
    /\ exit_code' = -1
    /\ reported' = <<>>
    /\ log' = <<>>
    /\ results' = <<>>
    /\ remote0' = remote
    /\ previous' = [log |-> log, results |-> results, exit_code |-> exit_code]
    /\ UNCHANGED <<args, config, organization, dry_run, sync_labels,
                   sync_milestones, remote, faults>>

\* a command line with a credential, an existing configuration file and
\* --summary; sl and sm choose among no sync toggle, --sync-labels,
\* --sync-milestones and --sync
Args(org, dry, sl, sm) ==
    [token |-> "t0ken", config |-> "config.yml", organization |-> org,
     dry_run |-> dry, summary |-> TRUE, sync |-> sl /\ sm,
     sync_labels |-> sl /\ ~sm, sync_milestones |-> sm /\ ~sl]

\* the state main starts in: command line a, document cfg in the
\* configuration file, remote store rem
Start(cfg, a, rem) ==
    /\ args = a
    /\ config = cfg
    /\ organization = ""
    /\ dry_run = FALSE
    /\ sync_labels = FALSE
    /\ sync_milestones = FALSE
    /\ remote = rem
    /\ remote0 = rem
    /\ repositories = <<>>
    /\ pc = Position("main", 1, 1)
    /\ repo_success = TRUE
    /\ success = TRUE
    /\ label_manager = NewManager
    /\ milestone_manager = NewManager
    /\ success_count = 0
    /\ error_count = 0
    /\ processed_repos = {}
    /\ exit_code = -1
    /\ reported = <<>>
    /\ pass = 1
    /\ log = <<>>
    /\ results = <<>>
    /\ previous = [log |-> <<>>, results |-> <<>>, exit_code |-> -1]

Remote(first) == [r \in {RemoteRepos[1], RemoteRepos[2]} |->
                     IF r = RemoteRepos[1] THEN first ELSE SecondRepo]

\* runs that vary the declared and remote labels
InitLabels ==
    \E rc \in RepositoryChoices, lk \in LabelKeys, ls \in RemoteLabelLists,
       dry \in BOOLEAN, sl \in BOOLEAN, sm \in BOOLEAN :
        Start([repositories |-> rc.repositories, milestones |-> NoKey,
               labels |-> lk, secrets |-> NoKey],
              Args(rc.organization, dry, sl, sm),
              Remote(RepoState(ls, Pick(RemoteMilestones, {1}))))

\* runs that vary the declared and remote milestones
InitMilestones ==
    \E rc \in RepositoryChoices, mk \in MilestoneKeys,
       ms \in RemoteMilestoneLists,
       dry \in BOOLEAN, sl \in BOOLEAN, sm \in BOOLEAN :
        Start([repositories |-> rc.repositories, milestones |-> mk,
               labels |-> NoKey, secrets |-> Key(DeclaredSecrets)],
              Args(rc.organization, dry, sl, sm),
              Remote(RepoState(Pick(RemoteLabels, {1}), ms)))

\* the configuration that declares all three kinds, and the remote it meets
ConfigAll(repos) ==
    [repositories |-> repos,
     milestones |-> Key(Pick(DeclaredMilestones, {1, 2})),
     labels |-> Key(Pick(DeclaredLabels, {1, 3})),
     secrets |-> Key(DeclaredSecrets)]

RemoteAll ==
    Remote(RepoState(Pick(RemoteLabels, {2, 5}), Pick(RemoteMilestones, {2, 3})))

\* runs that declare all three kinds
InitAll ==
    \E rc \in RepositoryChoices, dry \in BOOLEAN, sl \in BOOLEAN, sm \in BOOLEAN :
        Start(ConfigAll(rc.repositories), Args(rc.organization, dry, sl, sm),
              RemoteAll)

\* declared items that lack a required field: a milestone without title, a
\* label without name, a label without color, a secret without value, a
\* secret without name
Untitled == Milestone(Absent, "", GoodDate)
Unnamed == Label(Absent, Color(0, Name("abc", {})), "")
Colorless == Label(Name("fix", {}), Absent, "")
Valueless == [name |-> Str("TOKEN"), value |-> Absent]
Nameless == [name |-> Absent, value |-> Str("s3cret")]

\* the documents a configuration file can hold: ConfigAll, and ConfigAll with
\* one more declared item that lacks a required field
Documents ==
    LET c == ConfigAll(NoKey)
    IN {c} \cup {[c EXCEPT !.milestones.items = Append(@, Untitled)]}
           \cup {[c EXCEPT !.labels.items = Append(@, l)] :
                     l \in {Unnamed, Colorless}}
           \cup {[c EXCEPT !.secrets.items = Append(@, x)] :
                     x \in {Valueless, Nameless}}

\* runs that vary what main starts from: the credential, the configuration
\* file and the document in it
InitStartup ==
    \E token \in {"", "t0ken"}, file \in {"config.yml", "missing.yml"},
       document \in Documents, dry \in BOOLEAN :
        Start(document,
              [Args("acme", dry, TRUE, TRUE) EXCEPT !.token = token,
                                                    !.config = file],
              RemoteAll)

\* the repositories key and the organization: a qualified and an unqualified
\* name under --organization acme; an unqualified name, a qualified name and
\* no list without --organization
RepositorySelections ==
    { [repositories |-> Key(<<Repo("acme", "r2"), Repo("", "r1")>>),
       organization |-> "acme"],
      [repositories |-> Key(<<Repo("", "r1")>>), organization |-> ""],
      [repositories |-> Key(<<Repo("acme", "r1")>>), organization |-> ""],
      [repositories |-> NoKey, organization |-> ""] }

\* runs that vary how the repositories are selected
InitRepositories ==
    \E rc \in RepositorySelections, dry \in BOOLEAN :
        Start(ConfigAll(rc.repositories),
              Args(rc.organization, dry, TRUE, TRUE), RemoteAll)

\* runs that vary how the due date of a milestone to create is written
InitDates ==
    \E m \in DatedMilestones, dry \in BOOLEAN :
        Start([repositories |-> Key(<<Repo("", "r1")>>),
               milestones |-> Key(<<m>>), labels |-> NoKey, secrets |-> NoKey],
              Args("acme", dry, FALSE, FALSE), RemoteAll)

\* runs that vary the three sync toggles of the command line
InitToggles ==
    \E sync \in BOOLEAN, sl \in BOOLEAN, sm \in BOOLEAN :
        Start(ConfigAll(Key(<<Repo("", "r1")>>)),
              [Args("acme", FALSE, FALSE, FALSE) EXCEPT
                   !.sync = sync, !.sync_labels = sl, !.sync_milestones = sm],
              RemoteAll)

\* runs whose configuration has "repositories: []", with and without
\* --organization
InitEmptyList ==
    \E org \in {"", "acme"}, dry \in BOOLEAN :
        Start(ConfigAll(Key(<<>>)), Args(org, dry, TRUE, TRUE), RemoteAll)

\* runs that vary the letter case of the remote titles a declared milestone
\* meets
InitMatching ==
    \E m \in MatchedMilestones, ms \in SubSeqs(CaseMilestones, 2), dry \in BOOLEAN :
        Start([repositories |-> Key(<<Repo("", "r1")>>),
               milestones |-> Key(<<m>>), labels |-> NoKey, secrets |-> NoKey],
              Args("acme", dry, FALSE, FALSE),
              Remote(RepoState(<<>>, ms)))

Init ==
    /\ \/ InitLabels \/ InitMilestones \/ InitAll \/ InitStartup
       \/ InitRepositories \/ InitToggles \/ InitDates \/ InitMatching
       \/ InitEmptyList
    /\ faults = 0

Next ==
    \/ Main
    \/ GetRepositories
    \/ CreateMilestone
    \/ CreateLabel
    \/ CreateSecret
    \/ SyncMilestones
    \/ SyncLabels
    \/ Finish

Spec == Init /\ [][Next]_vars

\* the configuration applied twice, with no request failing
InitTwice == (InitLabels \/ InitMilestones \/ InitAll) /\ faults = MaxFaults

NextTwice == Next \/ Reapply

SpecTwice == InitTwice /\ [][NextTwice]_vars

\* runs an interrupt can end, with and without --summary
InitInterrupt ==
    \E rc \in RepositoryChoices, dry \in BOOLEAN, sl \in BOOLEAN,
       sm \in BOOLEAN, summary \in BOOLEAN :
        /\ Start(ConfigAll(rc.repositories),
                 [Args(rc.organization, dry, sl, sm) EXCEPT !.summary = summary],
                 RemoteAll)
        /\ faults = 0

NextInterrupt == Next \/ Interrupt

SpecInterrupt == InitInterrupt /\ [][NextInterrupt]_vars

\* configured lists that name a repository twice: r1, r1 and r1, r2, r1
RepeatedSelections ==
    { Key(<<Repo("", "r1"), Repo("", "r1")>>),
      Key(<<Repo("", "r1"), Repo("", "r2"), Repo("acme", "r1")>>) }

\* runs over a configured list that names a repository twice
InitRepeated ==
    \E repos \in RepeatedSelections, dry \in BOOLEAN, sl \in BOOLEAN,
       sm \in BOOLEAN :
        /\ Start(ConfigAll(repos), Args("acme", dry, sl, sm), RemoteAll)
        /\ faults = 0

SpecRepeated == InitRepeated /\ [][Next]_vars

(***************************************************************************)
(* Properties.                                                             *)
(***************************************************************************)
IsWrite(r) == r.m \in {"POST", "PATCH", "DELETE"} /\ r.kind \in {"label", "milestone"}

\* no request failed, but for the 404 of the lookup of a label that is absent
NoFailure(l) ==
    \A i \in 1..Len(l) :
        Ok(l[i].status) \/ (l[i].m = "GET" /\ l[i].kind = "label" /\ l[i].status = 404)

Calls(op) == {i \in 1..Len(results) : results[i].op = op}

\* the second, non-dry-run application, no request having failed in either
SecondPass == pass = 2 /\ ~dry_run /\ NoFailure(previous.log) /\ NoFailure(log)

Counter(k) == label_manager.stats[k] + milestone_manager.stats[k]

C2_DryRunNonMutation ==
    dry_run =>
        /\ \A i \in 1..Len(log) : ~IsWrite(log[i])
        /\ \A r \in DOMAIN remote :
               /\ remote[r].labels = remote0[r].labels
               /\ remote[r].milestones = remote0[r].milestones

C2_Witness ==
    /\ dry_run
    /\ pc.ph = "done"
    /\ \E i \in Calls("create_label") : results[i].outcome = "would_create"
    /\ \E i \in Calls("create_label") : results[i].outcome = "would_update"
    /\ \E i \in Calls("sync_repository_labels") : results[i].would # <<>>

\* the outcome a dry run reports, as the outcome it stands for
Kind(outcome) ==
    CASE outcome = "would_create" -> "created"
      [] outcome = "would_update" -> "updated"
      [] OTHER -> outcome

\* C3: for the item about to be reconciled, a dry run reports the same kind
\* of outcome and the same result as the non-dry-run reconciliation produces
\* on the same remote state (no request failing).
C3_DryRunConsistent ==
    /\ pc.ph = "milestones" =>
           LET rs == StoreOf(repo)
               store == [milestones |-> rs.milestones,
                         next_number |-> rs.next_number]
               item == config.milestones.items[pc.idx]
               d == create_milestone(repo, store, item, TRUE,
                                     milestone_manager, NoFaults)
               n == create_milestone(repo, store, item, FALSE,
                                     milestone_manager, NoFaults)
           IN Kind(d.outcome) = n.outcome /\ d.ret = n.ret
    /\ pc.ph = "labels" =>
           LET item == config.labels.items[pc.idx]
               d == create_label(repo, StoreOf(repo).labels, item, TRUE,
                                 label_manager, NoFaults)
               n == create_label(repo, StoreOf(repo).labels, item, FALSE,
                                 label_manager, NoFaults)
           IN Kind(d.outcome) = n.outcome /\ d.ret = n.ret

\* the successful DELETE requests of one item of one repository
Deletes(r, kind, key) ==
    {i \in 1..Len(log) :
        /\ log[i].m = "DELETE" /\ log[i].kind = kind /\ log[i].repo = r
        /\ log[i].key = key /\ Ok(log[i].status)}

DeleteIssued(r, kind) ==
    \E i \in 1..Len(log) :
        log[i].m = "DELETE" /\ log[i].kind = kind /\ log[i].repo = r

DeleteFailed(r, kind) ==
    \E i \in 1..Len(log) :
        /\ log[i].m = "DELETE" /\ log[i].kind = kind /\ log[i].repo = r
        /\ ~Ok(log[i].status)

\* the sync pass of op ran on r and returned True (its listing and every
\* DELETE succeeded)
Synced(op, r) ==
    \E i \in Calls(op) : results[i].repo = r /\ results[i].ret

Elements(seq) == {seq[i] : i \in 1..Len(seq)}

\* every label r began with is deleted exactly once if undeclared, never if
\* declared, and none undeclared is left
LabelsSynced(r) ==
    /\ \A l \in Elements(remote0[r].labels) :
           Cardinality(Deletes(r, "label", l.name)) =
               IF InSeq(l.name, Names(config.labels.items)) THEN 0 ELSE 1
    /\ \A l \in Elements(remote[r].labels) :
           InSeq(l.name, Names(config.labels.items))

MilestonesSynced(r) ==
    /\ \A m \in Elements(remote0[r].milestones) :
           Cardinality(Deletes(r, "milestone", [number |-> m.number])) =
               IF InSeq(m.title, Titles(config.milestones.items)) THEN 0 ELSE 1
    /\ \A m \in Elements(remote[r].milestones) :
           InSeq(m.title, Titles(config.milestones.items))

\* C4 as stated: at the end of a run, for every repository processed and each
\* kind: with sync enabled (non-dry-run, no DELETE failed) every undeclared
\* remote item was deleted exactly once and no declared one; with sync
\* disabled nothing of the kind was deleted.
C4_AsStated ==
    pc.ph = "done" =>
        \A r \in processed_repos :
            /\ (sync_labels /\ ~dry_run /\ ~DeleteFailed(r, "label"))
                   => LabelsSynced(r)
            /\ (sync_milestones /\ ~dry_run /\ ~DeleteFailed(r, "milestone"))
                   => MilestonesSynced(r)
            /\ ~sync_labels => ~DeleteIssued(r, "label")
            /\ ~sync_milestones => ~DeleteIssued(r, "milestone")

\* C4 amended: with sync enabled for the kind, the kind's key present in the
\* configuration, and the listing and every DELETE of the sync pass
\* succeeding (non-dry-run), every undeclared remote item is deleted exactly
\* once and no declared one; with sync disabled for the kind, or its key
\* absent from the configuration, nothing of the kind is deleted.
C4_SyncCompleteness ==
    pc.ph = "done" =>
        \A r \in processed_repos :
            /\ (sync_labels /\ config.labels.has /\ ~dry_run
                    /\ Synced("sync_repository_labels", r))
                   => LabelsSynced(r)
            /\ (sync_milestones /\ config.milestones.has /\ ~dry_run
                    /\ Synced("sync_repository_milestones", r))
                   => MilestonesSynced(r)
            /\ (~sync_labels \/ ~config.labels.has)
                   => ~DeleteIssued(r, "label")
            /\ (~sync_milestones \/ ~config.milestones.has)
                   => ~DeleteIssued(r, "milestone")

C4_Witness ==
    /\ pc.ph = "done"
    /\ ~dry_run
    /\ \E r \in processed_repos :
        /\ Synced("sync_repository_labels", r)
        /\ Synced("sync_repository_milestones", r)
        /\ \E l \in Elements(remote0[r].labels) :
               Cardinality(Deletes(r, "label", l.name)) = 1
        /\ \E m \in Elements(remote0[r].milestones) :
               Cardinality(Deletes(r, "milestone", [number |-> m.number])) = 1
        /\ Len(remote[r].labels) > 0
        /\ Len(remote[r].milestones) > 0

\* C5: apply_config returns 0 if every handler call of the run returned
\* success and 1 if any returned failure.
C5_ExitStatus ==
    pc.ph = "done" =>
        exit_code = IF \A i \in 1..Len(results) : results[i].ret THEN 0 ELSE 1

C5_Witness ==
    /\ pc.ph = "done"
    /\ exit_code = 1
    /\ Len(results) > 1
    /\ results[Len(results)].ret
    /\ \E i \in 1..Len(results) :
           ~results[i].ret /\ results[i].repo # results[Len(results)].repo

\* the handler calls a complete run makes
Expected(op) ==
    Len(repositories) *
        CASE op = "create_milestone" -> Len(config.milestones.items)
          [] op = "create_label" -> Len(config.labels.items)
          [] op = "create_or_update_secret" -> Len(config.secrets.items)
          [] op = "sync_repository_milestones" ->
                IF sync_milestones /\ config.milestones.has THEN 1 ELSE 0
          [] op = "sync_repository_labels" ->
                IF sync_labels /\ config.labels.has THEN 1 ELSE 0

FailedCalls(op) == {i \in Calls(op) : results[i].outcome = "failed"}

\* C6: a failed item is recorded (failed counter) and returns failure, and
\* the run still makes every handler call of every repository.
C6_FailuresDoNotAbort ==
    pc.ph = "done" =>
        /\ \A op \in {"create_milestone", "create_label",
                      "create_or_update_secret", "sync_repository_milestones",
                      "sync_repository_labels"} :
               Cardinality(Calls(op)) = Expected(op)
        /\ \A i \in 1..Len(results) :
               results[i].outcome = "failed" => ~results[i].ret
        /\ label_manager.stats.failed = Cardinality(FailedCalls("create_label"))
        /\ milestone_manager.stats.failed =
               Cardinality(FailedCalls("create_milestone"))

C6_Witness ==
    /\ pc.ph = "done"
    /\ \E i \in 1..Len(results) :
        /\ results[i].outcome = "failed"
        /\ \E j \in (i + 1)..Len(results) : results[j].repo = results[i].repo
        /\ \E j \in (i + 1)..Len(results) : results[j].repo # results[i].repo

\* the milestone create_milestone is about to be called with, and the
\* milestones of its repository
NextMilestone == config.milestones.items[pc.idx]
MilestoneStore ==
    [milestones |-> StoreOf(repo).milestones,
     next_number |-> StoreOf(repo).next_number]

\* a non-empty due date string that none of the formats parses
Unparseable(due) == due.k = "str" /\ due.s # <<>> /\ ~_format_due_date(due).ok

HasRequest(reqs, m) == \E i \in 1..Len(reqs) : reqs[i].m = m

\* C7: a declared milestone with an unparseable due date and no remote
\* milestone of its title is not created: no POST is issued, the outcome is
\* Skipped (skipped + 1, failed and error_count unchanged) and the call does
\* not report failure.
C7_UnparseableCreateSkipped ==
    (pc.ph = "milestones" /\ ~dry_run /\ Unparseable(NextMilestone.due_on)
        /\ FindTitle(MilestoneStore.milestones, NextMilestone.title) = 0)
    => \A f \in Faults :
          LET res == create_milestone(repo, MilestoneStore, NextMilestone,
                                      FALSE, milestone_manager, f)
          IN  /\ ~HasRequest(res.reqs, "POST")
              /\ res.outcome = "skipped"
              /\ res.ret
              /\ res.mgr.stats.skipped = milestone_manager.stats.skipped + 1
              /\ res.mgr.stats.failed = milestone_manager.stats.failed
              /\ res.mgr.error_count = milestone_manager.error_count

\* C8: a declared milestone with an unparseable due date whose title the
\* remote holds is updated by a PATCH without a due_on field, and the remote
\* milestone keeps its due date.
C8_UnparseableUpdateKeepsDue ==
    (pc.ph = "milestones" /\ ~dry_run /\ Unparseable(NextMilestone.due_on)
        /\ FindTitle(MilestoneStore.milestones, NextMilestone.title) # 0)
    => LET i == FindTitle(MilestoneStore.milestones, NextMilestone.title)
           res == create_milestone(repo, MilestoneStore, NextMilestone, FALSE,
                                   milestone_manager, NoFaults)
       IN  /\ \E k \in 1..Len(res.reqs) :
                  res.reqs[k].m = "PATCH" /\ res.reqs[k].body.due_on = Absent
           /\ \A k \in 1..Len(res.reqs) :
                  res.reqs[k].m = "PATCH" => res.reqs[k].body.due_on = Absent
           /\ res.store.milestones[i].due_on =
                  MilestoneStore.milestones[i].due_on

NextLabel == config.labels.items[pc.idx]
LabelStore == StoreOf(repo).labels

\* C9: a declared label whose name differs only in letter case from a remote
\* label is reconciled to exactly one Updated outcome: the remote label is
\* patched to the declared name, color and description, nothing is Created
\* and no second label appears.
C9_CaseInsensitiveConvergence ==
    (pc.ph = "labels" /\ ~dry_run /\ FindLabel(LabelStore, NextLabel.name) = 0
        /\ FindLabelLower(LabelStore, NextLabel.name) # 0)
    => LET j == FindLabelLower(LabelStore, NextLabel.name)
           res == create_label(repo, LabelStore, NextLabel, FALSE,
                               label_manager, NoFaults)
       IN  /\ res.outcome = "updated"
           /\ res.ret
           /\ res.mgr.stats.updated = label_manager.stats.updated + 1
           /\ res.mgr.stats.created = label_manager.stats.created
           /\ Len(res.store) = Len(LabelStore)
           /\ res.store[j] = NextLabel

\* a color as it is compared case-insensitively without its leading '#'
Folded(color) == [LStripHash(color) EXCEPT !.hex = Lower(@)]

\* C10: a declared label the remote holds is Skipped (no PATCH) exactly when
\* the colors are equal case-insensitively without a leading '#' and the
\* descriptions are equal; otherwise it is Updated.
C10_LabelComparison ==
    (pc.ph = "labels" /\ ~dry_run /\ FindLabel(LabelStore, NextLabel.name) # 0)
    => LET existing == LabelStore[FindLabel(LabelStore, NextLabel.name)]
           same == /\ Folded(existing.color) = Folded(NextLabel.color)
                   /\ existing.description = NextLabel.description
           res == create_label(repo, LabelStore, NextLabel, FALSE,
                               label_manager, NoFaults)
       IN  /\ res.outcome = IF same THEN "skipped" ELSE "updated"
           /\ same => ~HasRequest(res.reqs, "PATCH")

\* C11: when the POST of a declared milestone is answered with 422,
\* create_milestone returns success with outcome Skipped (skipped + 1, failed
\* and error_count unchanged); any other failure of the POST is Failed.
C11_ConflictSkipped ==
    (pc.ph = "milestones" /\ ~dry_run)
    => \A f \in FaultChoices(repo) :
          LET res == create_milestone(repo, MilestoneStore, NextMilestone,
                                      FALSE, milestone_manager, f)
          IN \A k \in 1..Len(res.reqs) :
                res.reqs[k].m = "POST" =>
                    IF res.reqs[k].status = 422
                    THEN /\ res.outcome = "skipped"
                         /\ res.ret
                         /\ res.mgr.stats.skipped =
                                milestone_manager.stats.skipped + 1
                         /\ res.mgr.stats.failed = milestone_manager.stats.failed
                         /\ res.mgr.error_count = milestone_manager.error_count
                    ELSE ~Ok(res.reqs[k].status) => res.outcome = "failed"

\* the repositories apply_config has begun to process
Begun == {repositories[k] : k \in {j \in 1..Len(repositories) : j <= pc.ri}}

\* C12: when an interrupt ends the run, no repository after the one being
\* processed has been touched, the exit code is 130, and with --summary the
\* statistics accumulated so far (totals and per-kind counters) are reported.
C12_Cancellation ==
    (pc.ph = "interrupted" /\ repositories # <<>>) =>
        /\ exit_code = 130
        /\ processed_repos \subseteq Begun
        /\ \A i \in 1..Len(results) : results[i].repo \in Begun
        /\ args.summary =>
               /\ Len(reported) = 1
               /\ reported[1].milestone_stats = milestone_manager.stats
               /\ reported[1].label_stats = label_manager.stats
               /\ reported[1].success_count =
                      label_manager.success_count
                          + milestone_manager.success_count
               /\ reported[1].error_count =
                      label_manager.error_count + milestone_manager.error_count

\* a declared item of the configuration lacks a required field
LacksRequired(cfg) ==
    \/ \E i \in 1..Len(cfg.milestones.items) :
           cfg.milestones.items[i].title = Absent
    \/ \E i \in 1..Len(cfg.labels.items) :
           cfg.labels.items[i].name = Absent \/ cfg.labels.items[i].color = Absent
    \/ \E i \in 1..Len(cfg.secrets.items) :
           cfg.secrets.items[i].name = Absent \/ cfg.secrets.items[i].value = Absent

\* C13: if a declared milestone lacks its title, a label its name or color,
\* or a secret its name or value, loading the configuration ends the process
\* with a non-zero status and no request is ever issued.
C13_ValidationBeforeReconciliation ==
    (pc.ph # "main" /\ LacksRequired(config)) =>
        /\ pc.ph = "exited"
        /\ exit_code = 1
        /\ log = <<>>

\* the position of repository r in the list apply_config iterates over
IndexOf(r) == CHOOSE k \in 1..Len(repositories) : repositories[k] = r

\* the rank of a create/update step in apply_config_to_repository
StepRank(op) ==
    CASE op = "create_milestone" -> 1
      [] op = "create_label" -> 2
      [] op = "create_or_update_secret" -> 3
      [] OTHER -> 4

\* the rank of a request of a create/update step: milestone writes, label
\* lookups and writes, secret requests; 0 for any other request
RequestRank(r) ==
    CASE r.kind = "milestone" /\ r.m \in {"POST", "PATCH"} -> 1
      [] r.kind = "label" /\ r.m \in {"GET", "POST", "PATCH"} -> 2
      [] r.kind \in {"public-key", "secret"} -> 3
      [] OTHER -> 0

\* the requests issued for a repository (all but the listing of repositories)
Reconciling == {i \in 1..Len(log) : log[i].kind # "repos"}

\* C14: in the requests and handler calls of a run, repositories are
\* processed one after another; within a repository the milestone
\* create/update steps precede the label create/update steps, which precede
\* the secret upserts; the sync deletions of a kind follow all create/update
\* steps of that kind for the repository.
C14_Ordering ==
    pc.ph = "done" =>
        /\ \A i, j \in Reconciling :
               i < j => IndexOf(log[i].repo) <= IndexOf(log[j].repo)
        /\ \A i, j \in 1..Len(results) :
               i < j => IndexOf(results[i].repo) <= IndexOf(results[j].repo)
        /\ \A i, j \in 1..Len(results) :
               (i < j /\ results[i].repo = results[j].repo)
                   => StepRank(results[i].op) <= StepRank(results[j].op)
        /\ \A i, j \in Reconciling :
               (i < j /\ log[i].repo = log[j].repo /\ RequestRank(log[i]) # 0
                      /\ RequestRank(log[j]) # 0)
                   => RequestRank(log[i]) <= RequestRank(log[j])
        /\ \A i, j \in Reconciling :
               (log[i].m = "DELETE" /\ log[j].m \in {"POST", "PATCH"}
                      /\ log[i].repo = log[j].repo /\ log[i].kind = log[j].kind)
                   => j < i

C14_Witness ==
    /\ pc.ph = "done"
    /\ Len(repositories) = 2
    /\ \A r \in {repositories[1], repositories[2]} :
           /\ \A op \in {"create_milestone", "create_label",
                         "create_or_update_secret"} :
                  \E i \in Calls(op) : results[i].repo = r
           /\ \A kind \in {"label", "milestone"} :
                  \E i, j \in Reconciling :
                      /\ log[i].repo = r /\ log[i].kind = kind
                      /\ log[i].m \in {"POST", "PATCH"}
                      /\ log[j].repo = r /\ log[j].kind = kind
                      /\ log[j].m = "DELETE"
           /\ \E i \in Reconciling : log[i].repo = r /\ log[i].m = "PUT"

NextSecret == config.secrets.items[pc.idx]

\* the requests of one upsert: the GET of the repository's public key, then
\* the PUT of the sealed value under the secret's name, and nothing else
Transmits(reqs, r, secret) ==
    /\ Len(reqs) = 2
    /\ reqs[1].m = "GET" /\ reqs[1].kind = "public-key" /\ reqs[1].repo = r
    /\ reqs[2].m = "PUT" /\ reqs[2].kind = "secret" /\ reqs[2].repo = r
    /\ reqs[2].key = secret.name
    /\ reqs[2].body = seal("key", secret.value)

\* the log holds, for repository r and a secret's name, a GET of the public
\* key followed by the PUT of the secret
Transmitted(r, name) ==
    \E i, j \in 1..Len(log) :
        /\ i < j
        /\ log[i].m = "GET" /\ log[i].kind = "public-key" /\ log[i].repo = r
        /\ log[j].m = "PUT" /\ log[j].kind = "secret" /\ log[j].repo = r
        /\ log[j].key = name

Selected ==
    /\ pc.ph \notin {"main", "start", "exited"}
    /\ config.repositories.has /\ config.repositories.items # <<>>

DeleteOf(kind) ==
    \E i \in 1..Len(log) : log[i].m = "DELETE" /\ log[i].kind = kind

\* the sync pass op has been called for repository r
SyncCalled(op, r) == \E i \in Calls(op) : results[i].repo = r

\* what the toggles rule out: with --sync-labels alone no milestone is
\* deleted, with --sync-milestones alone no label, with none nothing
ToggleFrame ==
    /\ (args.sync_labels /\ ~args.sync_milestones /\ ~args.sync)
           => ~DeleteOf("milestone")
    /\ (args.sync_milestones /\ ~args.sync_labels /\ ~args.sync)
           => ~DeleteOf("label")
    /\ (~args.sync_labels /\ ~args.sync_milestones /\ ~args.sync)
           => ~DeleteOf("label") /\ ~DeleteOf("milestone")

\* C17 as stated: the frame of the toggles, and with --sync both kinds are
\* synced: at the end of the run both sync passes have run for every
\* repository.
C17_AsStated ==
    /\ ToggleFrame
    /\ (pc.ph = "done" /\ args.sync) =>
           \A r \in processed_repos :
               /\ SyncCalled("sync_repository_labels", r)
               /\ SyncCalled("sync_repository_milestones", r)

\* C17 amended: the frame of the toggles, and with --sync the sync pass of
\* each kind whose key is present in the configuration has run for every
\* repository; a kind whose key is absent is not synced.
C17_SyncToggleScoping ==
    /\ ToggleFrame
    /\ (pc.ph = "done" /\ args.sync) =>
           \A r \in processed_repos :
               /\ SyncCalled("sync_repository_labels", r) <=> config.labels.has
               /\ SyncCalled("sync_repository_milestones", r)
                      <=> config.milestones.has

C17_Witness ==
    /\ pc.ph = "done"
    /\ args.sync_labels /\ ~args.sync_milestones /\ ~args.sync
    /\ DeleteOf("label")
    /\ \E r \in processed_repos :
           \E m \in Elements(remote[r].milestones) :
               ~InSeq(m.title, Titles(config.milestones.items))

\* the calendar date a due date string of May4 or Dec31 denotes
Calendar(due) ==
    IF due \in May4 THEN [y |-> 2025, m |-> 5, d |-> 4]
    ELSE [y |-> 2024, m |-> 12, d |-> 31]

\* "YYYY-MM-DDT23:59:59Z" for a calendar date
Normalized(c) ==
    Str(<<Num(4, c.y), Sep("-"), Num(2, c.m), Sep("-"), Num(2, c.d),
          Sep("T23:59:59Z")>>)

\* the first format of the list that parses the string
FirstParsing(text) ==
    CHOOSE k \in 1..Len(date_formats) :
        /\ strptime(text, date_formats[k]).ok
        /\ \A j \in 1..(k - 1) : ~strptime(text, date_formats[j]).ok

\* create_milestone called with m on a repository that does not hold m's
\* title POSTs it with due date due_on, and if the POST succeeds the outcome
\* is Created and the repository holds the milestone with that due date
CreatedDue(m, due_on) ==
    \A f \in FaultChoices(repo) :
        LET res == create_milestone(repo, MilestoneStore, m, FALSE,
                                    milestone_manager, f)
            posts == {k \in 1..Len(res.reqs) : res.reqs[k].m = "POST"}
            i == FindTitle(res.store.milestones, m.title)
        IN  /\ posts # {}
            /\ \A k \in posts : res.reqs[k].body.due_on = due_on
            /\ (\A k \in posts : Ok(res.reqs[k].status))
                   => /\ res.outcome = "created"
                      /\ i # 0
                      /\ res.store.milestones[i].due_on =
                             IF due_on = Absent THEN None ELSE due_on

\* a milestone is about to be created: non-dry-run, title not on the remote
Creating ==
    /\ pc.ph = "milestones" /\ ~dry_run
    /\ FindTitle(MilestoneStore.milestones, NextMilestone.title) = 0

\* the due date a declaration gives, under "due_date" or under "due_on"
Given(m) == IF m.due_date # Absent THEN m.due_date ELSE m.due_on

Rejected(cfg) ==
    \/ \E i \in 1..Len(cfg.milestones.items) :
           cfg.milestones.items[i].title = Absent
    \/ \E i \in 1..Len(cfg.labels.items) :
           cfg.labels.items[i].name = Absent \/ cfg.labels.items[i].color = Absent

\* the listing of the repositories failed
ListingFailed ==
    \E i \in 1..Len(log) : log[i].kind = "repos" /\ ~Ok(log[i].status)

\* the process has ended with a non-zero status and no label, milestone or
\* secret request has been issued
ExitedBeforeReconciliation ==
    /\ pc.ph = "exited"
    /\ exit_code = 1
    /\ Reconciling = {}
    /\ results = <<>>

DeletesIn(reqs) == {k \in 1..Len(reqs) : reqs[k].m = "DELETE"}
DeletedIn(reqs) == {k \in DeletesIn(reqs) : Ok(reqs[k].status)}
UndeletedIn(reqs) == {k \in DeletesIn(reqs) : ~Ok(reqs[k].status)}

\* what C20 says of one sync pass: before is the manager when the pass
\* begins, res what the pass leaves, undeclared the number of remote items
\* that are not declared
DeletionOutcomes(before, res, undeclared) ==
    /\ res.mgr.stats.removed =
           before.stats.removed + Cardinality(DeletedIn(res.reqs))
    /\ res.mgr.stats.failed =
           before.stats.failed + Cardinality(UndeletedIn(res.reqs))
    /\ Cardinality(DeletesIn(res.reqs)) = undeclared
    /\ UndeletedIn(res.reqs) # {} => ~res.ret

\* C20: in a non-dry-run sync pass whose listing succeeds, every successful
\* deletion adds one to the kind's removed counter, every failed deletion
\* adds one to the kind's failed counter, the pass goes on to the remaining
\* items, and it returns failure if a deletion failed.
C20_SyncDeletionOutcomes ==
    /\ (pc.ph = "sync_labels" /\ ~dry_run) =>
           \A failing \in FailingChoices(Elements(Names(LabelStore))) :
               DeletionOutcomes(
                   label_manager,
                   sync_repository_labels(repo, LabelStore,
                       Names(config.labels.items), FALSE, label_manager,
                       NoFaults, failing),
                   Cardinality({i \in 1..Len(LabelStore) :
                       ~InSeq(LabelStore[i].name, Names(config.labels.items))}))
    /\ (pc.ph = "sync_milestones" /\ ~dry_run) =>
           \A failing \in FailingChoices(
                   {m.number : m \in Elements(MilestoneStore.milestones)}) :
               DeletionOutcomes(
                   milestone_manager,
                   sync_repository_milestones(repo, MilestoneStore,
                       Titles(config.milestones.items), FALSE,
                       milestone_manager, NoFaults, failing),
                   Cardinality({i \in 1..Len(MilestoneStore.milestones) :
                       ~InSeq(MilestoneStore.milestones[i].title,
                              Titles(config.milestones.items))}))

\* the requests of method m among reqs
RequestsIn(reqs, m) == {k \in 1..Len(reqs) : reqs[k].m = m}

\* the remote milestones of the repository whose title is, letter for letter,
\* the declared one
ExactMatches(ms, title) == {k \in 1..Len(ms) : ms[k].title = title}

\* the call issues exactly one PATCH, to milestone number, and no POST; the
\* outcome is Updated, or Failed if the PATCH fails
PatchesOnly(res, number) ==
    /\ Cardinality(RequestsIn(res.reqs, "PATCH")) = 1
    /\ \A k \in RequestsIn(res.reqs, "PATCH") :
           /\ res.reqs[k].key = [number |-> number]
           /\ res.outcome = IF Ok(res.reqs[k].status) THEN "updated" ELSE "failed"
    /\ RequestsIn(res.reqs, "POST") = {}

\* the call issues a POST and no PATCH
PostsOnly(res) ==
    /\ Cardinality(RequestsIn(res.reqs, "POST")) = 1
    /\ RequestsIn(res.reqs, "PATCH") = {}

\* a non-dry-run create_milestone is about to be called
Reconciles == pc.ph = "milestones" /\ ~dry_run

\* C21: in a non-dry-run call whose listing succeeds, when the repository holds a
\* milestone with exactly the declared title, the call issues exactly one
\* PATCH to that milestone's number and no POST, with outcome Updated, or
\* Failed if the PATCH fails; when it holds none, the call issues a POST and no
\* PATCH.
C21_MilestoneMatching ==
    Reconciles =>
        \A f \in FaultChoices(repo) :
            LET res == create_milestone(repo, MilestoneStore, NextMilestone,
                                        FALSE, milestone_manager, f)
                ms == MilestoneStore.milestones
                hits == ExactMatches(ms, NextMilestone.title)
            IN  Ok(f.list) =>
                    IF hits # {}
                    THEN \E k \in hits : PatchesOnly(res, ms[k].number)
                    ELSE PostsOnly(res)

\* the calls op makes for n declared items, in order
Steps(op, n) == [i \in 1..n |-> [op |-> op, idx |-> i]]

\* the handler calls one visit of a repository makes, in order
Plan ==
    Steps("create_milestone", Len(config.milestones.items))
        \o Steps("create_label", Len(config.labels.items))
        \o Steps("create_or_update_secret", Len(config.secrets.items))
        \o Steps("sync_repository_milestones",
                 IF sync_milestones /\ config.milestones.has THEN 1 ELSE 0)
        \o Steps("sync_repository_labels",
                 IF sync_labels /\ config.labels.has THEN 1 ELSE 0)

\* the entries of the configured list, each qualified with the organization
\* if it has no owner
Targets ==
    [i \in 1..Len(config.repositories.items) |->
        LET entry == config.repositories.items[i]
        IN IF entry.owner = "" /\ args.organization # ""
           THEN Repo(args.organization, entry.name) ELSE entry]

\* the calls of op that ended with outcome
Outcomes(op, outcome) == {i \in Calls(op) : results[i].outcome = outcome}

\* the successful DELETE requests of a kind
Removed(kind) ==
    {i \in 1..Len(log) :
        log[i].m = "DELETE" /\ log[i].kind = kind /\ Ok(log[i].status)}

\* the counters of a manager count every call of op in the history and every
\* successful deletion of the kind
CountsAll(mgr, op, kind) ==
    /\ \A k \in {"created", "updated", "skipped", "failed"} :
           mgr.stats[k] = Cardinality(Outcomes(op, k))
    /\ mgr.stats.removed = Cardinality(Removed(kind))

\* C22: at the end of a run over a configured list, the handler calls are,
\* for every entry of the list in list order (an entry that repeats an
\* earlier one included), the declared milestones, labels and secrets and
\* the enabled sync passes on that entry's repository; and (non-dry-run) the
\* counters of both managers count the calls and deletions of every visit.
C22_NoDeduplication ==
    (pc.ph = "done" /\ config.repositories.items # <<>>) =>
        /\ Len(results) = Len(Targets) * Len(Plan)
        /\ \A k \in 1..Len(Targets) : \A j \in 1..Len(Plan) :
               LET call == results[(k - 1) * Len(Plan) + j]
               IN /\ call.repo = Targets[k]
                  /\ call.op = Plan[j].op
                  /\ call.idx = Plan[j].idx
        /\ ~dry_run =>
               /\ CountsAll(milestone_manager, "create_milestone", "milestone")
               /\ CountsAll(label_manager, "create_label", "label")

\* a non-dry-run run over r1, r1 with both sync passes ended: every declared
\* milestone was reconciled twice on acme/r1, the first visit created v1 and
\* the second updated it, and each sync pass ran twice
C22_Witness ==
    /\ pc.ph = "done" /\ ~dry_run
    /\ repositories = <<Repo("acme", "r1"), Repo("acme", "r1")>>
    /\ Cardinality(Calls("create_milestone")) = 2 * Len(config.milestones.items)
    /\ milestone_manager.stats.created = 1
    /\ milestone_manager.stats.updated = 3
    /\ Cardinality(Calls("sync_repository_milestones")) = 2
    /\ Cardinality(Calls("sync_repository_labels")) = 2
    /\ Cardinality(processed_repos) = 1

OutcomeCounters == {"created", "updated", "skipped", "failed"}

\* the inputs of a create_label call (it issues GET, PATCH, POST and the
\* listing) and of a create_milestone call (the listing, PATCH and POST):
\* every combination of their requests failing
LabelFaults == {f \in Faults : f.put = 200}
MilestoneFaults == {f \in Faults : f.put = 200 /\ f.get = 200}

\* from manager before to manager after exactly one of created, updated,
\* skipped, failed grew, by one, and the other three and removed are as they
\* were
OneOutcome(before, after) ==
    \E k \in OutcomeCounters :
        after.stats = [before.stats EXCEPT ![k] = @ + 1]

OutcomeSum(mgr) ==
    mgr.stats.created + mgr.stats.updated + mgr.stats.skipped + mgr.stats.failed

\* C23: in a non-dry-run run, whatever the repository holds and whichever
\* requests fail, the create_label or create_milestone call about to be made
\* adds one to exactly one of its kind's counters created, updated, skipped,
\* failed and leaves the other three and removed as they are; and in every
\* state the sum of the four counters of a kind is the number of calls made
\* so far for that kind over all repositories, which at the end of the run is
\* the number of declared items times the number of repositories.
C23_OneOutcomePerItem ==
    ~dry_run =>
        /\ pc.ph = "labels" =>
               \A f \in LabelFaults :
                   OneOutcome(label_manager,
                              create_label(repo, LabelStore, NextLabel, FALSE,
                                           label_manager, f).mgr)
        /\ pc.ph = "milestones" =>
               \A f \in MilestoneFaults :
                   OneOutcome(milestone_manager,
                              create_milestone(repo, MilestoneStore,
                                               NextMilestone, FALSE,
                                               milestone_manager, f).mgr)
        /\ OutcomeSum(label_manager) = Cardinality(Calls("create_label"))
        /\ OutcomeSum(milestone_manager) = Cardinality(Calls("create_milestone"))
        /\ pc.ph = "done" =>
               /\ OutcomeSum(label_manager) =
                      Len(repositories) * Len(config.labels.items)
               /\ OutcomeSum(milestone_manager) =
                      Len(repositories) * Len(config.milestones.items)

\* a non-dry-run run over two repositories ended with one label Created, one
\* Updated, one Skipped and one Failed, after a sync pass removed a label
C23_Witness ==
    /\ pc.ph = "done" /\ ~dry_run
    /\ Len(repositories) = 2 /\ Len(config.labels.items) = 2
    /\ \A k \in OutcomeCounters : label_manager.stats[k] = 1
    /\ label_manager.stats.removed >= 1

\* C24: in every state of a run each manager's success_count is its created
\* counter plus its updated counter (removed and skipped items add nothing to
\* it), and once apply_config has ended the orchestrator's success_count is
\* the sum of the two managers' success counts and its error_count the sum of
\* their error counts.
C24_SuccessCountAccounting ==
    /\ \A mgr \in {label_manager, milestone_manager} :
           mgr.success_count = mgr.stats.created + mgr.stats.updated
    /\ pc.ph = "done" =>
           /\ success_count =
                  label_manager.success_count + milestone_manager.success_count
           /\ error_count =
                  label_manager.error_count + milestone_manager.error_count

\* a non-dry-run run ended in which both managers created or updated items,
\* a sync pass removed one and a request failed
C24_Witness ==
    /\ pc.ph = "done" /\ ~dry_run
    /\ label_manager.success_count >= 1 /\ milestone_manager.success_count >= 1
    /\ label_manager.stats.removed + milestone_manager.stats.removed >= 1
    /\ success_count >= 3
    /\ error_count >= 1

\* the inputs of a sync pass, whose one request besides the DELETEs is the
\* listing: the listing answers or fails
ListFaults == {NoFaults} \cup {[NoFaults EXCEPT !.list = st] : st \in FaultStatuses}

\* a call that raised the manager's error_count returned failure
ErrorReturnsFailure(before, res) ==
    res.mgr.error_count > before.error_count => ~res.ret

\* C25: the handler call about to be made, whichever requests fail, returns
\* failure to the orchestrator if it raises its manager's error_count; and at
\* the end of apply_config a total error_count above 0 comes with the return
\* value 1.
C25_ErrorCountImpliesFailure ==
    /\ pc.ph = "labels" =>
           \A f \in LabelFaults :
               ErrorReturnsFailure(label_manager,
                   create_label(repo, LabelStore, NextLabel, dry_run,
                                label_manager, f))
    /\ pc.ph = "milestones" =>
           \A f \in MilestoneFaults :
               ErrorReturnsFailure(milestone_manager,
                   create_milestone(repo, MilestoneStore, NextMilestone,
                                    dry_run, milestone_manager, f))
    /\ pc.ph = "sync_labels" =>
           \A f \in ListFaults, failing \in SUBSET Elements(Names(LabelStore)) :
               ErrorReturnsFailure(label_manager,
                   sync_repository_labels(repo, LabelStore,
                       Names(config.labels.items), dry_run, label_manager, f,
                       failing))
    /\ pc.ph = "sync_milestones" =>
           \A f \in ListFaults,
              failing \in SUBSET {m.number : m \in Elements(MilestoneStore.milestones)} :
               ErrorReturnsFailure(milestone_manager,
                   sync_repository_milestones(repo, MilestoneStore,
                       Titles(config.milestones.items), dry_run,
                       milestone_manager, f, failing))
    /\ (pc.ph = "done" /\ error_count > 0) => exit_code = 1

\* a run ended with status 1 and one error counted although the failed call
\* was followed by calls that succeeded, in the same repository and in the
\* next one
C25_Witness ==
    /\ pc.ph = "done"
    /\ error_count = 1 /\ exit_code = 1
    /\ \E i \in 1..Len(results) :
           /\ ~results[i].ret
           /\ \E j \in (i + 1)..Len(results) :
                  results[j].ret /\ results[j].repo = results[i].repo
           /\ \E j \in (i + 1)..Len(results) :
                  results[j].ret /\ results[j].repo # results[i].repo
           /\ \A j \in 1..Len(results) : j # i => results[j].ret

\* C26: in a dry run, after any sequence of create_label, create_milestone
\* and sync calls, the created, updated and removed counters of both kinds
\* and the success_count of both managers are 0.
C26_DryRunCounters ==
    dry_run =>
        \A mgr \in {label_manager, milestone_manager} :
            /\ mgr.stats.created = 0
            /\ mgr.stats.updated = 0
            /\ mgr.stats.removed = 0
            /\ mgr.success_count = 0

\* a dry run ended in which a milestone and a label would have been created,
\* a milestone and a label updated, and each sync pass would have removed an
\* item
C26_Witness ==
    /\ dry_run
    /\ pc.ph = "done"
    /\ \A op \in {"create_label", "create_milestone"} :
           /\ Outcomes(op, "would_create") # {}
           /\ Outcomes(op, "would_update") # {}
    /\ \A op \in {"sync_repository_labels", "sync_repository_milestones"} :
           \E i \in Calls(op) : results[i].would # <<>>

\* the key is in the configuration with an empty list
EmptyDeclared(key) == key.has /\ key.items = <<>>

\* the requests of a kind issued for repository r
RequestsOf(r, kind) == {i \in 1..Len(log) : log[i].repo = r /\ log[i].kind = kind}

\* a DELETE was issued for the item of repository r with this key
DeleteSent(r, kind, key) ==
    \E i \in RequestsOf(r, kind) : log[i].m = "DELETE" /\ log[i].key = key

\* the listing of the kind for repository r succeeded
Listed(r, kind) ==
    \E i \in RequestsOf(r, kind) : log[i].m = "LIST" /\ Ok(log[i].status)

\* C27: at the end of a non-dry-run run with sync enabled for a kind whose
\* key is in the configuration with an empty list, for every repository
\* processed whose listing succeeded a DELETE was issued for every item of the
\* kind the repository held, and if no request failed the repository holds
\* none; and in any run whose configuration lacks the kind's key no DELETE of
\* the kind is issued, sync enabled or not.
C27_SyncEmptyDeclaration ==
    pc.ph = "done" =>
        /\ \A r \in processed_repos \cap DOMAIN remote :
               /\ (~dry_run /\ sync_labels /\ EmptyDeclared(config.labels)) =>
                      /\ Listed(r, "label") =>
                             \A l \in Elements(remote0[r].labels) :
                                 DeleteSent(r, "label", l.name)
                      /\ (\A i \in RequestsOf(r, "label") : Ok(log[i].status))
                             => remote[r].labels = <<>>
               /\ (~dry_run /\ sync_milestones /\ EmptyDeclared(config.milestones)) =>
                      /\ Listed(r, "milestone") =>
                             \A m \in Elements(remote0[r].milestones) :
                                 DeleteSent(r, "milestone", [number |-> m.number])
                      /\ (\A i \in RequestsOf(r, "milestone") : Ok(log[i].status))
                             => remote[r].milestones = <<>>
        /\ ~config.labels.has => ~DeleteOf("label")
        /\ ~config.milestones.has => ~DeleteOf("milestone")

\* a non-dry-run run with --sync ended whose configuration has "labels: []"
\* and no milestones key: a repository that held two labels and a milestone
\* holds no label and still holds the milestone
C27_Witness ==
    /\ pc.ph = "done" /\ ~dry_run
    /\ sync_labels /\ sync_milestones
    /\ EmptyDeclared(config.labels) /\ ~config.milestones.has
    /\ \E r \in processed_repos \cap DOMAIN remote :
           /\ Len(remote0[r].labels) = 2
           /\ remote[r].labels = <<>>
           /\ remote[r].milestones # <<>>
           /\ remote[r].milestones = remote0[r].milestones

\* the first request of the call, the lookup of the existing item (the GET
\* of the label, the listing of the milestones), failed
LookupFailed(res, m) ==
    /\ res.reqs # <<>>
    /\ res.reqs[1].m = m
    /\ ~Ok(res.reqs[1].status)

\* the call went on to the create request: a POST follows the lookup, and the
\* outcome is that of the POST
FellThrough(res) ==
    \E k \in RequestsIn(res.reqs, "POST") :
        /\ k > 1
        /\ Ok(res.reqs[k].status) => res.outcome = "created"

\* C28: in a non-dry-run call of create_label whose GET of the label fails,
\* or of create_milestone whose listing fails, with whatever status, the item
\* is taken as absent and the create request is issued for it.
C28_LookupFailureFallsThrough ==
    ~dry_run =>
        /\ pc.ph = "labels" =>
               \A f \in Faults :
                   LET res == create_label(repo, LabelStore, NextLabel, FALSE,
                                           label_manager, f)
                   IN LookupFailed(res, "GET") => FellThrough(res)
        /\ pc.ph = "milestones" =>
               \A f \in Faults :
                   LET res == create_milestone(repo, MilestoneStore,
                                               NextMilestone, FALSE,
                                               milestone_manager, f)
                   IN LookupFailed(res, "LIST") => FellThrough(res)

\* the repositories the remote holds for the organization given on the
\* command line, or all it holds if none is given
Visible == {r \in DOMAIN remote0 : args.organization \in {"", r.owner}}

\* the configuration names no repository: the key is absent or its list empty
NamesNone == ~config.repositories.has \/ config.repositories.items = <<>>

\* C29: at the end of a run whose configuration has no repositories key, or
\* has it with an empty list, the repositories were listed from the remote,
\* the list iterated over is every repository of the organization (or of the
\* user) once, and for each of them in turn every declared milestone, label
\* and secret and every enabled sync pass was applied.
C29_EmptyListMeansAll ==
    (pc.ph = "done" /\ NamesNone) =>
        /\ \E i \in 1..Len(log) : log[i].kind = "repos" /\ Ok(log[i].status)
        /\ Elements(repositories) = Visible
        /\ Len(repositories) = Cardinality(Visible)
        /\ processed_repos = Visible
        /\ Len(results) = Len(repositories) * Len(Plan)
        /\ \A k \in 1..Len(repositories) : \A j \in 1..Len(Plan) :
               LET call == results[(k - 1) * Len(Plan) + j]
               IN /\ call.repo = repositories[k]
                  /\ call.op = Plan[j].op
                  /\ call.idx = Plan[j].idx

\* a non-dry-run run with --sync ended whose configuration has
\* "repositories: []": both repositories of the remote were processed and an
\* undeclared label was deleted from each
C29_Witness ==
    /\ pc.ph = "done" /\ ~dry_run
    /\ config.repositories.has /\ config.repositories.items = <<>>
    /\ Cardinality(processed_repos) = 2
    /\ \A r \in processed_repos :
           \E i \in RequestsOf(r, "label") :
               log[i].m = "DELETE" /\ Ok(log[i].status)

====
